---- MODULE Spec2Model ----
(***************************************************************************)
(* Hirshfeld surface fingerprints: the per-mesh worker of                  *)
(* fingerprint_kahan.py (read-out, Kahan triangle areas, binning,          *)
(* normalization, densification), the same worker with the triangle areas  *)
(* of fingerprint_rr.py and of fingerprint_heron.py, and the round-robin   *)
(* comparison of hirshfeld_moderator.py (difference maps, difference       *)
(* numbers), the batch of main() over the .cxs files of a directory, and   *)
(* the stage functions of one invocation of hirshfeld_moderator.py with    *)
(* their working directory.                                                *)
(*                                                                         *)
(* Units.  Lengths are integers in 1e-5 Angstrom, areas integers in        *)
(* 1e-10 Angstrom^2, d_i / d_e integers in 0.01 Angstrom.  A square root   *)
(* is rounded down to a whole unit, the model's form of the rounding of    *)
(* math.sqrt to a representable number.  A value printed                   *)
(* with eight decimals is the pair <<w, f>> = w + f / 10^8 with            *)
(* 0 <= f < 10^8 (floor form), because it does not fit a 32 bit integer.   *)
(* Text is a sequence of character codes, so that the string sorts and     *)
(* string comparisons of the scripts are the ones of the model.            *)
(***************************************************************************)
EXTENDS Integers, Sequences, FiniteSets, TLC

VARIABLES
    \* ---- Worker of fingerprint_kahan.py, one .cxs file ----
    script,                 \* the script run on the file
    cxs_content,            \* lines of the .cxs file
    vertices_coordinates,   \* stored vertex lines
    indices_list,           \* stored triangle lines
    di_list,                \* stored d_i lines
    de_list,                \* stored d_e lines
    computed_triangles,     \* <<sum d_e, sum d_i, area>> per accepted triangle
    recorder_register,      \* <<d_i, d_e, area rounded to 8 decimals>>
    integral_area,          \* summed area of all bins
    normalized_register,    \* <<d_i, d_e, percentage>>
    dat_register,           \* <<d_i, d_e, percentage>>, the .dat file (sparse)
    pc,                     \* position of main() for this file
    \* ---- main(): the batch over the .cxs files of the directory ----
    directory,              \* the working directory: file name -> content
    cxs_register,           \* names of the .cxs files still to be processed
    cxs_file,               \* name of the file in process
    \* ---- difference_maps_python / difference_number_python ----
    folder,                 \* cxs_workshop: file name -> lines
    diff_register,          \* names still in the tournament
    cursor,                 \* position of the for loop in diff_register[1:]
    printed,                \* "Comparison a ./. b" messages, in order
    written,                \* names of the difference maps, in order written
    numbers,                \* printed difference numbers
    earlier,                \* <<printed, written, folder>> of the run before
    pcR,                    \* position of the comparison stage
    \* ---- hirshfeld_moderator.py: the stages of one invocation ----
    cwd,                    \* the working directory of the process
    workshop,               \* <<>> or <<names of the files in cxs_workshop>>
    stages,                 \* the stage functions still to be called
    assemble_choice,        \* the answer given to assemble_cxs
    pcM                     \* "run", "exit" or "failed"

varsBatch == <<directory, cxs_register, cxs_file>>
varsFP == <<script, cxs_content, vertices_coordinates, indices_list, di_list, de_list,
            computed_triangles, recorder_register, integral_area,
            normalized_register, dat_register, pc, directory, cxs_register, cxs_file>>
varsRR == <<folder, diff_register, cursor, printed, written, numbers, earlier, pcR>>
vars == <<script, cxs_content, vertices_coordinates, indices_list, di_list, de_list,
          computed_triangles, recorder_register, integral_area,
          normalized_register, dat_register, pc, directory, cxs_register, cxs_file,
          folder, diff_register, cursor, printed, written, numbers, earlier, pcR,
          cwd, workshop, stages, assemble_choice, pcM>>

varsM == <<cwd, workshop, stages, assemble_choice, pcM>>

\* no invocation of the moderator
IdleM ==
    /\ cwd = "root"
    /\ workshop = <<>>
    /\ stages = <<>>
    /\ assemble_choice = 0
    /\ pcM = "idle"

(***************************************************************************)
(* Text                                                                    *)
(***************************************************************************)
RECURSIVE Digits(_)
Digits(n) == IF n < 10 THEN <<48 + n>> ELSE Digits(n \div 10) \o <<48 + (n % 10)>>

Abs(n) == IF n < 0 THEN -n ELSE n

\* "{:3.2f}".format(x) for x = n / 100
Fmt2(n) ==
    (IF n < 0 THEN <<45>> ELSE <<>>) \o Digits(Abs(n) \div 100)
        \o <<46, 48 + ((Abs(n) \div 10) % 10), 48 + (Abs(n) % 10)>>

\* Python's order of two strings
RECURSIVE StrLess(_, _)
StrLess(s, t) ==
    IF t = <<>> THEN FALSE
    ELSE IF s = <<>> THEN TRUE
    ELSE IF Head(s) # Head(t) THEN Head(s) < Head(t)
    ELSE StrLess(Tail(s), Tail(t))

\* ' '.join([di, de]) of two coordinates printed with two decimals
KeyText(di, de) == Fmt2(di) \o <<32>> \o Fmt2(de)

\* file names
DotDat == <<46, 100, 97, 116>>
DiffText == <<100, 105, 102, 102>>
Underscore == <<95>>

StartsWith(text, prefix) ==
    Len(text) >= Len(prefix) /\ SubSeq(text, 1, Len(prefix)) = prefix
EndsWith(text, suffix) ==
    Len(text) >= Len(suffix)
        /\ SubSeq(text, Len(text) - Len(suffix) + 1, Len(text)) = suffix

\* reference_file[:-4]
DropLast4(text) == IF Len(text) <= 4 THEN <<>> ELSE SubSeq(text, 1, Len(text) - 4)

\* the names in descending order
RECURSIVE SortedNamesDescending(_)
SortedNamesDescending(names) ==
    IF names = {} THEN <<>>
    ELSE LET first == CHOOSE x \in names : \A y \in names \ {x} : StrLess(y, x)
         IN  <<first>> \o SortedNamesDescending(names \ {first})

\* list.sort() of a list of distinct names
RECURSIVE SortedNames(_)
SortedNames(names) ==
    IF names = {} THEN <<>>
    ELSE LET first == CHOOSE x \in names : \A y \in names \ {x} : StrLess(x, y)
         IN  <<first>> \o SortedNames(names \ {first})

(***************************************************************************)
(* Values with eight decimals                                              *)
(***************************************************************************)
Frac == 100000000

DecZero == <<0, 0>>
DecAdd(a, b) ==
    IF a[2] + b[2] >= Frac THEN <<a[1] + b[1] + 1, a[2] + b[2] - Frac>>
    ELSE <<a[1] + b[1], a[2] + b[2]>>
DecSub(a, b) ==
    IF a[2] >= b[2] THEN <<a[1] - b[1], a[2] - b[2]>>
    ELSE <<a[1] - b[1] - 1, a[2] - b[2] + Frac>>
DecNeg(a) == DecSub(DecZero, a)
DecAbs(a) == IF a[1] < 0 THEN DecNeg(a) ELSE a

RECURSIVE DecSum(_)
DecSum(s) == IF s = <<>> THEN DecZero ELSE DecAdd(Head(s), DecSum(Tail(s)))

(***************************************************************************)
(* The .cxs file                                                           *)
(***************************************************************************)
\* A line of the file: <<tag, section, payload>>.  "begin <section> <n>"
\* is <<"begin", section, n>>, "end <section>" is <<"end", section, 0>>, any
\* other line is <<"data", section, payload>>.
BeginLine(section, n) == <<"begin", section, n>>
EndLine(section) == <<"end", section, 0>>
DataLine(section, payload) == <<"data", section, payload>>

\* the lines of one section, as CrystalExplorer writes them
RECURSIVE DataLines(_, _)
DataLines(section, payloads) ==
    IF payloads = <<>> THEN <<>>
    ELSE <<DataLine(section, Head(payloads))>> \o DataLines(section, Tail(payloads))

Section(section, payloads) ==
    <<BeginLine(section, Len(payloads))>> \o DataLines(section, payloads)
        \o <<EndLine(section)>>

CxsFile(vertices, indices, di, de) ==
    Section("vertices", vertices) \o Section("indices", indices)
        \o Section("d_i", di) \o Section("d_e", de)

\* a readout that starts to collect with the line after the begin marker
RECURSIVE CollectAfterBegin(_, _, _)
CollectAfterBegin(lines, section, tester) ==
    IF lines = <<>> THEN <<>>
    ELSE LET line == Head(lines)
         IN  IF line[1] = "end" /\ line[2] = section THEN <<>>
             ELSE (IF tester THEN <<line>> ELSE <<>>)
                      \o CollectAfterBegin(Tail(lines), section,
                             IF line[1] = "begin" /\ line[2] = section
                             THEN TRUE ELSE tester)

\* the for loop of the four readout_*_count methods: collect from the
\* begin marker on, stop at the first end marker
RECURSIVE Collect(_, _, _)
Collect(lines, section, tester) ==
    IF lines = <<>> THEN <<>>
    ELSE LET line == Head(lines)
             started == IF line[1] = "begin" /\ line[2] = section
                        THEN TRUE ELSE tester
         IN  IF line[1] = "end" /\ line[2] = section THEN <<>>
             ELSE (IF started THEN <<line>> ELSE <<>>)
                      \o Collect(Tail(lines), section, started)

(***************************************************************************)
(* Triangle areas, Kahan formula                                           *)
(***************************************************************************)
\* floor of the square root, by bisection
RECURSIVE SqrtBetween(_, _, _)
SqrtBetween(n, lo, hi) ==
    IF hi - lo <= 1 THEN lo
    ELSE LET mid == (lo + hi) \div 2
         IN  IF mid * mid <= n THEN SqrtBetween(n, mid, hi)
             ELSE SqrtBetween(n, lo, mid)

\* math.sqrt, rounded down to a whole unit
Sqrt(n) == IF n < 2 THEN n ELSE SqrtBetween(n, 1, IF n < 46340 THEN n ELSE 46340)

\* list[index] of Python: negative indices count from the end
InRange(list, index) == -Len(list) <= index /\ index < Len(list)
PyItem(list, index) ==
    IF index >= 0 THEN list[index + 1] ELSE list[Len(list) + index + 1]

\* int(triangle.split()[k]) succeeds for k = 0, 1, 2: three whole numbers
IsIndexLine(line) == line[1] = "data" /\ line[2] = "indices"

\* float(line.split()[k]) succeeds for k = 0, 1, 2: three numbers
IsPointLine(line) == line[1] = "data" /\ line[2] \in {"vertices", "indices"}

\* float(line) succeeds: one number
IsScalarLine(line) == line[1] = "data" /\ line[2] \in {"d_i", "d_e"}

\* the coordinates read from a line of three numbers; the numbers of a
\* line of indices are whole Angstrom
PointOf(line) ==
    IF line[2] = "vertices" THEN line[3]
    ELSE <<line[3][1] * 100000, line[3][2] * 100000, line[3][3] * 100000>>

\* lines 186-202: the indices and the three points of one line of
\* indices_list, <<"error">> (ValueError, IndexError) or
\* <<"points", point_A, point_B, point_C>>
PointsOf(line, vertices) ==
    IF ~IsIndexLine(line) THEN <<"error">>
    ELSE IF \E k \in 1..3 : ~InRange(vertices, line[3][k]) THEN <<"error">>
    ELSE IF \E k \in 1..3 : ~IsPointLine(PyItem(vertices, line[3][k]))
    THEN <<"error">>
    ELSE <<"points", PointOf(PyItem(vertices, line[3][1])),
                     PointOf(PyItem(vertices, line[3][2])),
                     PointOf(PyItem(vertices, line[3][3]))>>

\* lines 244-254: d_e and d_i of the three vertices, <<"error">> or
\* <<"sums", sum d_e, sum d_i>>.  The averages are kept as the sums of the
\* three values, i.e. in thirds of 0.01 Angstrom.
AveragesOf(line, dis, des) ==
    IF \E k \in 1..3 : ~InRange(des, line[3][k]) THEN <<"error">>
    ELSE IF \E k \in 1..3 : ~IsScalarLine(PyItem(des, line[3][k])) THEN <<"error">>
    ELSE IF \E k \in 1..3 : ~InRange(dis, line[3][k]) THEN <<"error">>
    ELSE IF \E k \in 1..3 : ~IsScalarLine(PyItem(dis, line[3][k])) THEN <<"error">>
    ELSE <<"sums",
           PyItem(des, line[3][1])[3] + PyItem(des, line[3][2])[3]
               + PyItem(des, line[3][3])[3],
           PyItem(dis, line[3][1])[3] + PyItem(dis, line[3][2])[3]
               + PyItem(dis, line[3][3])[3]>>

Distance(p, q) ==
    Sqrt((p[1] - q[1]) * (p[1] - q[1]) + (p[2] - q[2]) * (p[2] - q[2])
             + (p[3] - q[3]) * (p[3] - q[3]))

Max2(a, b) == IF a >= b THEN a ELSE b
Min2(a, b) == IF a <= b THEN a ELSE b

\* the side lengths in ascending order
SortedSidesAscending(da, db, dc) ==
    LET hi == Max2(da, Max2(db, dc))
        lo == Min2(da, Min2(db, dc))
    IN  <<lo, da + db + dc - hi - lo, hi>>

\* length_register.sort(): Kahan_a >= Kahan_b >= Kahan_c
SortedSides(da, db, dc) ==
    LET hi == Max2(da, Max2(db, dc))
        lo == Min2(da, Min2(db, dc))
    IN  <<hi, da + db + dc - hi - lo, lo>>

KahanDegenerate(a, b, c) == (c - (a - b)) < 0

KahanArea(a, b, c) ==
    LET KA == a + (b + c)
        KB == c - (a - b)
        KC == c + (a - b)
        KD == a + (b - c)
    IN  Sqrt(KA * KB * KC * KD) \div 4

\* One pass of the loop body in triangle_surfaces for one line of
\* indices_list: <<"error">> (an exception), <<"skip">> (not a valid
\* triangle) or <<"triangle", <<sum d_e, sum d_i, area>>>>.
TriangleOf(line, vertices, dis, des) ==
    LET points == PointsOf(line, vertices)
    IN  IF points[1] = "error" THEN <<"error">>
        ELSE LET s == SortedSides(Distance(points[3], points[4]),
                                  Distance(points[2], points[4]),
                                  Distance(points[2], points[3]))
                 sums == AveragesOf(line, dis, des)
             IN  IF KahanDegenerate(s[1], s[2], s[3]) THEN <<"skip">>
                 ELSE IF sums[1] = "error" THEN <<"error">>
                 ELSE <<"triangle",
                        <<sums[2], sums[3], KahanArea(s[1], s[2], s[3])>>>>

\* the loop left at the first line that is not a valid triangle
RECURSIVE TriangleLoopBreak(_, _, _, _)
TriangleLoopBreak(lines, vertices, dis, des) ==
    IF lines = <<>> THEN <<FALSE, <<>>>>
    ELSE LET t == TriangleOf(Head(lines), vertices, dis, des)
             rest == TriangleLoopBreak(Tail(lines), vertices, dis, des)
         IN  IF t[1] = "error" THEN <<TRUE, <<>>>>
             ELSE IF t[1] = "skip" THEN <<FALSE, <<>>>>
             ELSE <<rest[1], <<t[2]>> \o rest[2]>>

\* the whole loop: <<failed, computed triangles in the order appended>>
RECURSIVE TriangleLoop(_, _, _, _)
TriangleLoop(lines, vertices, dis, des) ==
    IF lines = <<>> THEN <<FALSE, <<>>>>
    ELSE LET t == TriangleOf(Head(lines), vertices, dis, des)
             rest == TriangleLoop(Tail(lines), vertices, dis, des)
         IN  IF t[1] = "error" THEN <<TRUE, <<>>>>
             ELSE IF t[1] = "skip" THEN rest
             ELSE <<rest[1], <<t[2]>> \o rest[2]>>

(***************************************************************************)
(* Triangle areas of fingerprint_rr.py (sine of the angle at point A)      *)
(***************************************************************************)
\* float(10E-5) Angstrom, the side length every side has to exceed
MinSide == 10

\* 1 / 1e-7, the limit of pre_sint
SineLimit == 10000000

Vector(p, q) == <<q[1] - p[1], q[2] - p[2], q[3] - p[3]>>
Dot(v, w) == v[1] * w[1] + v[2] * w[2] + v[3] * w[3]
Length(v) == Sqrt(Dot(v, v))

\* lines 211-212: the test guard of the side lengths
LongSides(length_1, length_2, length_3) ==
    length_1 > MinSide /\ length_2 > MinSide /\ length_3 > MinSide

\* Products of two lengths squared do not fit the integers of the model
\* for long sides: a wide number is the sequence of its WideLen digits to
\* the base WideBase, lowest digit first.
WideBase == 10000
WideLen == 8

WideDigits(n) ==
    <<n % WideBase, (n \div WideBase) % WideBase, n \div (WideBase * WideBase)>>

RECURSIVE WideCarry(_, _)
WideCarry(raw, carry) ==
    IF raw = <<>> THEN <<>>
    ELSE <<(Head(raw) + carry) % WideBase>>
             \o WideCarry(Tail(raw), (Head(raw) + carry) \div WideBase)

\* u * v for 0 <= u, v < 2^31
WideProduct(u, v) ==
    LET du == WideDigits(u)
        dv == WideDigits(v)
        coefficient(k) ==
            (IF k <= 2 THEN du[1] * dv[k + 1] ELSE 0)
                + (IF k >= 1 /\ k <= 3 THEN du[2] * dv[k] ELSE 0)
                + (IF k >= 2 /\ k <= 4 THEN du[3] * dv[k - 1] ELSE 0)
    IN  WideCarry([k \in 1..WideLen |-> coefficient(k - 1)], 0)

\* w * k for a factor k of at most WideBase
WideTimes(w, k) == WideCarry([n \in 1..WideLen |-> w[n] * k], 0)

RECURSIVE WideLess(_, _)
WideLess(a, b) ==
    IF a = <<>> THEN FALSE
    ELSE IF a[Len(a)] # b[Len(a)] THEN a[Len(a)] < b[Len(a)]
    ELSE WideLess(SubSeq(a, 1, Len(a) - 1), SubSeq(b, 1, Len(a) - 1))

WideSum(a, b) == WideCarry([n \in 1..WideLen |-> a[n] + b[n]], 0)

RECURSIVE WideRootBetween(_, _, _)
WideRootBetween(w, lo, hi) ==
    IF hi - lo <= 1 THEN lo
    ELSE LET mid == lo + (hi - lo) \div 2
         IN  IF WideLess(w, WideProduct(mid, mid))
             THEN WideRootBetween(w, lo, mid)
             ELSE WideRootBetween(w, mid, hi)

\* lines 215-225.  cost is dot / (length_1 * length_2), so pre_sint is
\* (p - d)(p + d) / p^2 with p = length_1 * length_2 and d = |dot|; it
\* never exceeds 1.0, and it is below 1e-7 when (p - d)(p + d) * 10^7 < p^2.
\* pre_sint is kept as <<p - d, p, d>>.
PreSine(vector_1, vector_2, length_1, length_2) ==
    <<length_1 * length_2 - Abs(Dot(vector_1, vector_2)),
      length_1 * length_2,
      Abs(Dot(vector_1, vector_2))>>

\* (p - d)(p + d)
SineNumerator(pre_sint) ==
    WideSum(WideProduct(pre_sint[1], pre_sint[2]),
            WideProduct(pre_sint[1], pre_sint[3]))

SineTooSmall(pre_sint) ==
    IF pre_sint[1] <= 0 THEN TRUE
    ELSE WideLess(WideTimes(WideTimes(SineNumerator(pre_sint),
                                      SineLimit \div 1000), 1000),
                  WideProduct(pre_sint[2], pre_sint[2]))

\* lines 226-230: 0.5 * length_1 * length_2 * sqrt(pre_sint)
SineArea(pre_sint) ==
    IF pre_sint[2] <= 46340
    THEN Sqrt(pre_sint[1] * (pre_sint[2] + pre_sint[3])) \div 2
    ELSE WideRootBetween(SineNumerator(pre_sint), 0, 2147483647) \div 2

\* one pass of the loop body of fingerprint_rr.py
TriangleOfRR(line, vertices, dis, des) ==
    LET points == PointsOf(line, vertices)
    IN  IF points[1] = "error" THEN <<"error">>
        ELSE LET vector_1 == Vector(points[2], points[3])
                 vector_2 == Vector(points[2], points[4])
                 vector_3 == Vector(points[3], points[4])
                 pre_sint == PreSine(vector_1, vector_2,
                                     Length(vector_1), Length(vector_2))
                 sums == AveragesOf(line, dis, des)
             IN  IF ~LongSides(Length(vector_1), Length(vector_2), Length(vector_3))
                 THEN <<"skip">>
                 ELSE IF SineTooSmall(pre_sint) THEN <<"skip">>
                 ELSE IF sums[1] = "error" THEN <<"error">>
                 ELSE <<"triangle", <<sums[2], sums[3], SineArea(pre_sint)>>>>

\* the loop that takes a triangle the guards turn down
RECURSIVE TriangleLoopRRKeep(_, _, _, _)
TriangleLoopRRKeep(lines, vertices, dis, des) ==
    IF lines = <<>> THEN <<FALSE, <<>>>>
    ELSE LET t == TriangleOfRR(Head(lines), vertices, dis, des)
             sums == AveragesOf(Head(lines), dis, des)
             rest == TriangleLoopRRKeep(Tail(lines), vertices, dis, des)
         IN  IF t[1] = "error" THEN <<TRUE, <<>>>>
             ELSE IF t[1] = "skip"
             THEN (IF sums[1] = "error" THEN <<TRUE, <<>>>>
                   ELSE <<rest[1], <<<<sums[2], sums[3], 0>>>> \o rest[2]>>)
             ELSE <<rest[1], <<t[2]>> \o rest[2]>>

\* the whole loop of fingerprint_rr.py
RECURSIVE TriangleLoopRR(_, _, _, _)
TriangleLoopRR(lines, vertices, dis, des) ==
    IF lines = <<>> THEN <<FALSE, <<>>>>
    ELSE LET t == TriangleOfRR(Head(lines), vertices, dis, des)
             rest == TriangleLoopRR(Tail(lines), vertices, dis, des)
         IN  IF t[1] = "error" THEN <<TRUE, <<>>>>
             ELSE IF t[1] = "skip" THEN rest
             ELSE <<rest[1], <<t[2]>> \o rest[2]>>

(***************************************************************************)
(* Triangle areas of fingerprint_heron.py                                  *)
(***************************************************************************)
\* lines 230-232: s * (s - a) * (s - b) * (s - c) with s = (a + b + c) * 0.5,
\* taken sixteen times (the halving is exact)
HeronRadicand(dist_a, dist_b, dist_c) ==
    (dist_a + dist_b + dist_c) * (dist_b + dist_c - dist_a)
        * (dist_a + dist_c - dist_b) * (dist_a + dist_b - dist_c)

\* one pass of the loop body of fingerprint_heron.py; math.sqrt raises
\* ValueError for a negative radicand
TriangleOfHeron(line, vertices, dis, des) ==
    LET points == PointsOf(line, vertices)
    IN  IF points[1] = "error" THEN <<"error">>
        ELSE LET dist_a == Distance(points[3], points[4])
                 dist_b == Distance(points[2], points[4])
                 dist_c == Distance(points[2], points[3])
                 sums == AveragesOf(line, dis, des)
             IN  IF ~LongSides(dist_a, dist_b, dist_c) THEN <<"skip">>
                 ELSE IF HeronRadicand(dist_a, dist_b, dist_c) < 0 THEN <<"error">>
                 ELSE IF sums[1] = "error" THEN <<"error">>
                 ELSE <<"triangle",
                        <<sums[2], sums[3],
                          Sqrt(HeronRadicand(dist_a, dist_b, dist_c)) \div 4>>>>

\* the whole loop of fingerprint_heron.py
RECURSIVE TriangleLoopHeron(_, _, _, _)
TriangleLoopHeron(lines, vertices, dis, des) ==
    IF lines = <<>> THEN <<FALSE, <<>>>>
    ELSE LET t == TriangleOfHeron(Head(lines), vertices, dis, des)
             rest == TriangleLoopHeron(Tail(lines), vertices, dis, des)
         IN  IF t[1] = "error" THEN <<TRUE, <<>>>>
             ELSE IF t[1] = "skip" THEN rest
             ELSE <<rest[1], <<t[2]>> \o rest[2]>>

\* computed_triangles.sort(): the records "d_e d_i area" in text order; for
\* the first two columns this is the numeric order of the modelled values
TriangleBefore(s, t) ==
    \/ s[1] < t[1]
    \/ s[1] = t[1] /\ s[2] < t[2]
    \/ s[1] = t[1] /\ s[2] = t[2] /\ s[3] < t[3]

(***************************************************************************)
(* Binning and normalization                                               *)
(***************************************************************************)
\* "{:3.2f}".format(average) of an average kept as the sum s of three values
Round2(s) ==
    IF s >= 0 THEN (2 * s + 3) \div 6 ELSE -((2 * (-s) + 3) \div 6)

\* "{:9.8f}".format(area): an area in 1e-10 to the nearest 1e-8
Round8(a) ==
    LET q == a \div 100
        r == a % 100
    IN  IF r > 50 \/ (r = 50 /\ q % 2 = 1) THEN (q + 1) * 100 ELSE q * 100

\* An entry of a list that is scanned for key changes is <<d_i, d_e, value>>;
\* the STOP word "0 0 0" is <<0>>, the empty old_key "" is <<>>.
StopWord == <<0>>
KeyOf(entry) == IF Len(entry) = 3 THEN <<entry[1], entry[2]>> ELSE entry
KeyTextOf(key) ==
    IF Len(key) = 2 THEN KeyText(key[1], key[2])
    ELSE IF Len(key) = 1 THEN <<48, 32, 48>>
    ELSE <<>>
ValueOf(entry) == IF Len(entry) = 3 THEN entry[3] ELSE 0

\* pre_binned.sort(): text order of "d_i d_e area"
PreBinnedBefore(s, t) ==
    \/ StrLess(KeyText(s[1], s[2]), KeyText(t[1], t[2]))
    \/ KeyText(s[1], s[2]) = KeyText(t[1], t[2]) /\ s[3] < t[3]

\* lines 274-283: the triangles by their two-decimal (d_i, d_e), sorted
PreBinned(triangles) ==
    SortSeq([n \in 1..Len(triangles) |->
                <<Round2(triangles[n][2]), Round2(triangles[n][1]), triangles[n][3]>>],
            PreBinnedBefore)

\* lines 291-303: the scan; yields <<recorder_register, integral_area>>
RECURSIVE AreaScan(_, _, _, _, _)
AreaScan(list, old_key, local_area, integral, recorder) ==
    IF list = <<>> THEN <<recorder, integral>>
    ELSE LET entry == Head(list)
             key == KeyOf(entry)
         IN  IF KeyTextOf(key) = KeyTextOf(old_key)
             THEN AreaScan(Tail(list), old_key, local_area + ValueOf(entry),
                           integral, recorder)
             ELSE AreaScan(Tail(list), key, ValueOf(entry), integral + local_area,
                           Append(recorder, <<old_key, Round8(local_area)>>))

\* digits behind the point of a quotient r / d, n of them: <<digits, rest>>
RECURSIVE FracDigits(_, _, _, _)
FracDigits(r, d, n, acc) ==
    IF n = 0 THEN <<acc, r>>
    ELSE FracDigits((r * 10) % d, d, n - 1, acc * 10 + ((r * 10) \div d))

\* "{:9.8f}".format((area / integral_area) * 100.00)
Percentage(area, integral) ==
    LET n == area * 100
        fd == FracDigits(n % integral, integral, 8, 0)
        up == 2 * fd[2] > integral \/ (2 * fd[2] = integral /\ fd[1] % 2 = 1)
    IN  IF up THEN DecAdd(<<n \div integral, fd[1]>>, <<0, 1>>)
        ELSE <<n \div integral, fd[1]>>

\* lines 320-327
Normalized(recorder, integral) ==
    [n \in 1..Len(recorder) |->
        <<recorder[n][1][1], recorder[n][1][2], Percentage(recorder[n][2], integral)>>]

(***************************************************************************)
(* Densification                                                           *)
(***************************************************************************)
GridMin == 40
GridMax == 300

\* blank_list: itertools.product(assistance, assistance)
Grid == (GridMin..GridMax) \X (GridMin..GridMax)

RegisterKeys(register) == {<<register[n][1], register[n][2]>> : n \in 1..Len(register)}

\* raw_sum_list.sort(): text order of the keys
KeyBefore(s, t) == StrLess(KeyText(s[1], s[2]), KeyText(t[1], t[2]))

\* lines 361-372: the scan of the sorted list for key changes, the values
\* added up per key and printed with eight decimals
RECURSIVE DatScan(_, _, _, _)
DatScan(list, old_key, local_area, register) ==
    IF list = <<>> THEN register
    ELSE LET entry == Head(list)
             key == KeyOf(entry)
             value == IF Len(entry) = 3 THEN entry[3] ELSE DecZero
         IN  IF KeyTextOf(key) = KeyTextOf(old_key)
             THEN DatScan(Tail(list), old_key, DecAdd(local_area, value), register)
             ELSE DatScan(Tail(list), key, value,
                          Append(register, old_key \o <<local_area>>))

\* lines 348-374: the sorted merge of the normalized bins with the blank
\* list.  The entries of one key are adjacent in the sorted list (they share
\* the prefix "d_i d_e "), and a blank entry "<key> 0.0" adds nothing to the
\* sum of its key.  The register is kept sparse: it lists the entries of
\* the keys that normalized_register names; the key of the blank list that
\* no bin names has its entry "<key> 0.00000000" without being listed.
DatRegister(normalized) ==
    Tail(DatScan(Append(SortSeq(normalized, KeyBefore), StopWord), <<>>, DecZero, <<>>))

\* the entries of the .dat file: keys, number and value per key
DatKeys(register) == Grid \cup RegisterKeys(register)
GridSize == Cardinality(Grid)
DatEntryCount(register) == GridSize + Cardinality(RegisterKeys(register) \ Grid)
DatValue(register, key) ==
    IF key \in RegisterKeys(register)
    THEN register[CHOOSE n \in 1..Len(register) :
                      <<register[n][1], register[n][2]>> = key][3]
    ELSE DecZero

(***************************************************************************)
(* The worker: main() of fingerprint_kahan.py for one .cxs file            *)
(***************************************************************************)
\* The meshes read.  Vertices 0 to 3 have whole side lengths (a 12-16-20
\* triangle, its mirror image and the three collinear points between them);
\* vertices 4 and 5 lie on the diagonal through vertex 0 at distances that
\* are not whole; vertex 6 is far away, nearly in line with vertices 0 and 1.
\* A file has up to MaxTriangles triangles, a d_i per vertex and one d_e for
\* all vertices.
MaxTriangles == 2
VertexPoints == <<<<0, 0, 0>>, <<12, 0, 0>>, <<24, 0, 0>>, <<12, 16, 0>>,
                  <<12, 12, 0>>, <<24, 24, 0>>, <<206, 1, 0>>>>
\* four triangles of whole sides (the last one collinear), the collinear
\* triangle of the diagonal, a triangle with a side below MinSide, a needle
\* with its tip at vertex 6, a triangle with a negative index and one with
\* an index beyond the vertices
IndexTriples == {<<0, 1, 3>>, <<1, 2, 3>>, <<0, 2, 3>>, <<0, 1, 2>>,
                 <<0, 4, 5>>, <<3, 4, 5>>, <<6, 0, 1>>,
                 <<0, 1, -4>>, <<0, 1, 7>>}
DiValues == {100, 350}
DeValues == {100, 300}

TriangleLists == UNION {[1..n -> IndexTriples] : n \in 0..MaxTriangles}

\* d_i of the vertices: the higher value at none, one or all of them
DiLists ==
    {[v \in 1..Len(VertexPoints) |-> IF v \in high THEN 350 ELSE 100] :
        high \in {{}, {1}, {4}, 1..Len(VertexPoints)}}

\* a file whose header of one section declares one entry too many
WrongCount(file, section) ==
    [n \in 1..Len(file) |->
        IF file[n][1] = "begin" /\ file[n][2] = section
        THEN BeginLine(section, file[n][3] + 1) ELSE file[n]]

\* a file without the end marker of one section
NoEnd(file, section) == SelectSeq(file, LAMBDA line : line # EndLine(section))

Sections == {"vertices", "indices", "d_i", "d_e"}

\* the files as CrystalExplorer writes them
WrittenFiles ==
    {CxsFile(VertexPoints, indices, di, [v \in 1..Len(VertexPoints) |-> de]) :
        indices \in TriangleLists, di \in DiLists, de \in DeValues}

\* files with a wrong count or a missing end marker
DamagedFiles ==
    LET plain == {CxsFile(VertexPoints, indices,
                          [v \in 1..Len(VertexPoints) |-> 100],
                          [v \in 1..Len(VertexPoints) |-> 100]) :
                      indices \in TriangleLists}
    IN  {WrongCount(file, section) : file \in plain, section \in Sections}
            \cup {NoEnd(file, section) : file \in plain, section \in Sections}

MeshFiles == WrittenFiles \cup DamagedFiles

\* the scripts
Scripts == {"fingerprint_kahan", "fingerprint_rr", "fingerprint_heron"}

IdleRR ==
    /\ folder = <<>>
    /\ diff_register = <<>>
    /\ cursor = 0
    /\ printed = <<>>
    /\ written = <<>>
    /\ numbers = <<>>
    /\ earlier = <<>>
    /\ pcR = "idle"

\* a Worker that takes over the lists of the Worker before
FreshKept(list) == list

\* Worker.__init__, lines 61-73: the lists a new Worker starts with
Fresh(list) == <<>>

\* what a readout finds in its list: fingerprint_heron.py keeps the lists
\* as globals and empties each one at the start of the function filling it
Found(list) == IF script = "fingerprint_heron" THEN <<>> ELSE list

DotCxs == <<46, 99, 120, 115>>
MeshName == <<109>> \o DotCxs

\* the state after Worker(element) for the one .cxs file of the directory
InitFP ==
    /\ script \in Scripts
    /\ directory \in [{MeshName} -> MeshFiles]
    /\ cxs_register = <<>>
    /\ cxs_file = MeshName
    /\ cxs_content = <<>>
    /\ vertices_coordinates = <<>>
    /\ indices_list = <<>>
    /\ di_list = <<>>
    /\ de_list = <<>>
    /\ computed_triangles = <<>>
    /\ recorder_register = <<>>
    /\ integral_area = 0
    /\ normalized_register = <<>>
    /\ dat_register = <<>>
    /\ pc = "file_reader"
    /\ IdleRR
    /\ IdleM

\* the file is one of those listed by main()
file_reader ==
    /\ pc = "file_reader"
    /\ cxs_file \in DOMAIN directory
    /\ cxs_content' = directory[cxs_file]
    /\ pc' = "readout_vertices_count"
    /\ UNCHANGED <<script, vertices_coordinates, indices_list, di_list, de_list,
                   computed_triangles, recorder_register, integral_area,
                   normalized_register, dat_register>>
    /\ UNCHANGED varsBatch
    /\ UNCHANGED varsRR
    /\ UNCHANGED varsM

\* del list[0] after the loop raises IndexError when nothing was collected;
\* fingerprint_heron.py reads d_e before d_i
readout_vertices_count ==
    /\ pc = "readout_vertices_count"
    /\ LET collected == Found(vertices_coordinates) \o Collect(cxs_content, "vertices", FALSE)
       IN  IF collected = <<>>
           THEN pc' = "failed" /\ UNCHANGED vertices_coordinates
           ELSE pc' = "readout_indices_count"
                /\ vertices_coordinates' = Tail(collected)
    /\ UNCHANGED <<script, cxs_content, indices_list, di_list, de_list,
                   computed_triangles, recorder_register, integral_area,
                   normalized_register, dat_register>>
    /\ UNCHANGED varsBatch
    /\ UNCHANGED varsRR
    /\ UNCHANGED varsM

readout_indices_count ==
    /\ pc = "readout_indices_count"
    /\ LET collected == Found(indices_list) \o Collect(cxs_content, "indices", FALSE)
       IN  IF collected = <<>>
           THEN pc' = "failed" /\ UNCHANGED indices_list
           ELSE /\ indices_list' = Tail(collected)
                /\ pc' = IF script = "fingerprint_heron" THEN "readout_de_count"
                         ELSE "readout_di_count"
    /\ UNCHANGED <<script, cxs_content, vertices_coordinates, di_list, de_list,
                   computed_triangles, recorder_register, integral_area,
                   normalized_register, dat_register>>
    /\ UNCHANGED varsBatch
    /\ UNCHANGED varsRR
    /\ UNCHANGED varsM

readout_di_count ==
    /\ pc = "readout_di_count"
    /\ LET collected == Found(di_list) \o Collect(cxs_content, "d_i", FALSE)
       IN  IF collected = <<>>
           THEN pc' = "failed" /\ UNCHANGED di_list
           ELSE /\ di_list' = Tail(collected)
                /\ pc' = IF script = "fingerprint_heron" THEN "triangle_surfaces"
                         ELSE "readout_de_count"
    /\ UNCHANGED <<script, cxs_content, vertices_coordinates, indices_list, de_list,
                   computed_triangles, recorder_register, integral_area,
                   normalized_register, dat_register>>
    /\ UNCHANGED varsBatch
    /\ UNCHANGED varsRR
    /\ UNCHANGED varsM

readout_de_count ==
    /\ pc = "readout_de_count"
    /\ LET collected == Found(de_list) \o Collect(cxs_content, "d_e", FALSE)
       IN  IF collected = <<>>
           THEN pc' = "failed" /\ UNCHANGED de_list
           ELSE /\ de_list' = Tail(collected)
                /\ pc' = IF script = "fingerprint_heron" THEN "readout_di_count"
                         ELSE "triangle_surfaces"
    /\ UNCHANGED <<script, cxs_content, vertices_coordinates, indices_list, di_list,
                   computed_triangles, recorder_register, integral_area,
                   normalized_register, dat_register>>
    /\ UNCHANGED varsBatch
    /\ UNCHANGED varsRR
    /\ UNCHANGED varsM

\* fingerprint_kahan.py
triangle_surfaces ==
    /\ pc = "triangle_surfaces"
    /\ script = "fingerprint_kahan"
    /\ LET loop == TriangleLoop(indices_list, vertices_coordinates, di_list, de_list)
       IN  IF loop[1]
           THEN pc' = "failed" /\ UNCHANGED computed_triangles
           ELSE pc' = "numpy_free_area_binning"
                /\ computed_triangles' =
                       SortSeq(Found(computed_triangles) \o loop[2], TriangleBefore)
    /\ UNCHANGED <<script, cxs_content, vertices_coordinates, indices_list, di_list,
                   de_list, recorder_register, integral_area,
                   normalized_register, dat_register>>
    /\ UNCHANGED varsBatch
    /\ UNCHANGED varsRR
    /\ UNCHANGED varsM

\* fingerprint_rr.py
triangle_surfaces_rr ==
    /\ pc = "triangle_surfaces"
    /\ script = "fingerprint_rr"
    /\ LET loop == TriangleLoopRR(indices_list, vertices_coordinates, di_list, de_list)
       IN  IF loop[1]
           THEN pc' = "failed" /\ UNCHANGED computed_triangles
           ELSE pc' = "numpy_free_area_binning"
                /\ computed_triangles' =
                       SortSeq(Found(computed_triangles) \o loop[2], TriangleBefore)
    /\ UNCHANGED <<script, cxs_content, vertices_coordinates, indices_list, di_list,
                   de_list, recorder_register, integral_area,
                   normalized_register, dat_register>>
    /\ UNCHANGED varsBatch
    /\ UNCHANGED varsRR
    /\ UNCHANGED varsM

\* fingerprint_heron.py
triangle_surfaces_heron ==
    /\ pc = "triangle_surfaces"
    /\ script = "fingerprint_heron"
    /\ LET loop == TriangleLoopHeron(indices_list, vertices_coordinates, di_list,
                                     de_list)
       IN  IF loop[1]
           THEN pc' = "failed" /\ UNCHANGED computed_triangles
           ELSE pc' = "numpy_free_area_binning"
                /\ computed_triangles' =
                       SortSeq(Found(computed_triangles) \o loop[2], TriangleBefore)
    /\ UNCHANGED <<script, cxs_content, vertices_coordinates, indices_list, di_list,
                   de_list, recorder_register, integral_area,
                   normalized_register, dat_register>>
    /\ UNCHANGED varsBatch
    /\ UNCHANGED varsRR
    /\ UNCHANGED varsM

\* entry.split()[2] raises IndexError for the entry of the empty old_key
NoKey(recorder) == \E n \in 1..Len(recorder) : recorder[n][1] = <<>>

\* the division raises ZeroDivisionError when a bin is recorded and the
\* integral area is 0.0
numpy_free_area_binning ==
    /\ pc = "numpy_free_area_binning"
    /\ LET scan == AreaScan(Append(PreBinned(computed_triangles), StopWord),
                            <<>>, 0, 0, <<>>)
           recorder == Tail(Found(recorder_register) \o scan[1])
       IN  /\ recorder_register' = recorder
           /\ integral_area' = scan[2]
           /\ IF recorder # <<>> /\ (scan[2] = 0 \/ NoKey(recorder))
              THEN pc' = "failed" /\ UNCHANGED normalized_register
              ELSE pc' = "dat_file_generation"
                   /\ normalized_register' =
                          Found(normalized_register) \o Normalized(recorder, scan[2])
    /\ UNCHANGED <<script, cxs_content, vertices_coordinates, indices_list, di_list,
                   de_list, computed_triangles, dat_register>>
    /\ UNCHANGED varsBatch
    /\ UNCHANGED varsRR
    /\ UNCHANGED varsM

\* lines 376-377: cxs_file[:-4] + ".dat"
DatName(name) == DropLast4(name) \o DotDat

\* open(output_file, mode="w"): the file is made, or written anew
WriteFile(dir, name, content) ==
    [n \in DOMAIN dir \cup {name} |-> IF n = name THEN content ELSE dir[n]]

dat_file_generation ==
    /\ pc = "dat_file_generation"
    /\ dat_register' = DatRegister(normalized_register)
    /\ directory' = WriteFile(directory, DatName(cxs_file),
                              DatRegister(normalized_register))
    /\ pc' = "done"
    /\ UNCHANGED <<script, cxs_content, vertices_coordinates, indices_list, di_list,
                   de_list, computed_triangles, recorder_register, integral_area,
                   normalized_register, cxs_register, cxs_file>>
    /\ UNCHANGED varsRR
    /\ UNCHANGED varsM

NextFP ==
    \/ file_reader
    \/ readout_vertices_count
    \/ readout_indices_count
    \/ readout_di_count
    \/ readout_de_count
    \/ triangle_surfaces
    \/ triangle_surfaces_rr
    \/ triangle_surfaces_heron
    \/ numpy_free_area_binning
    \/ dat_file_generation

SpecFingerprint == InitFP /\ [][NextFP]_vars

\* fingerprint_rr.py at work on a mesh of one triangle with sides of very
\* different length: vertices 0, 1, 2 span a needle 0.00012 A wide and 0.4 A
\* long, vertex 3 lies 0.00016 A above vertex 1.  The triangle is any three
\* of the four vertices in any order.
NeedlePoints == <<<<0, 0, 0>>, <<12, 0, 0>>, <<0, 40000, 0>>, <<12, 16, 0>>>>
NeedleTriples ==
    {triple \in (0..3) \X (0..3) \X (0..3) :
        triple[1] # triple[2] /\ triple[1] # triple[3] /\ triple[2] # triple[3]}
NeedleFiles ==
    {CxsFile(NeedlePoints, <<triple>>, [v \in 1..4 |-> 100], [v \in 1..4 |-> 100]) :
        triple \in NeedleTriples}

InitNeedle ==
    /\ script = "fingerprint_rr"
    /\ directory \in [{MeshName} -> NeedleFiles]
    /\ cxs_register = <<>>
    /\ cxs_file = MeshName
    /\ cxs_content = <<>>
    /\ vertices_coordinates = <<>>
    /\ indices_list = <<>>
    /\ di_list = <<>>
    /\ de_list = <<>>
    /\ computed_triangles = <<>>
    /\ recorder_register = <<>>
    /\ integral_area = 0
    /\ normalized_register = <<>>
    /\ dat_register = <<>>
    /\ pc = "file_reader"
    /\ IdleRR
    /\ IdleM

NextNeedle ==
    \/ file_reader
    \/ readout_vertices_count
    \/ readout_indices_count
    \/ readout_di_count
    \/ readout_de_count
    \/ triangle_surfaces_rr
    \/ numpy_free_area_binning
    \/ dat_file_generation

SpecNeedle == InitNeedle /\ [][NextNeedle]_vars

\* The batch: main() over a directory of up to MaxBatch files a.cxs, b.cxs,
\* ..., each one of four meshes: one triangle; two triangles with other d_i
\* and d_e; a triangle with an index beyond the vertices; two triangles with
\* d_i averages of 10.00 and 7.00 A.
MaxBatch == 2
BatchFiles ==
    {CxsFile(VertexPoints, <<<<0, 1, 3>>>>, [v \in 1..Len(VertexPoints) |-> 100],
             [v \in 1..Len(VertexPoints) |-> 100]),
     CxsFile(VertexPoints, <<<<1, 2, 3>>, <<0, 1, 3>>>>,
             [v \in 1..Len(VertexPoints) |-> IF v = 1 THEN 350 ELSE 100],
             [v \in 1..Len(VertexPoints) |-> 300]),
     CxsFile(VertexPoints, <<<<0, 1, 7>>>>, [v \in 1..Len(VertexPoints) |-> 100],
             [v \in 1..Len(VertexPoints) |-> 100]),
     CxsFile(VertexPoints, <<<<0, 1, 3>>, <<1, 2, 3>>>>,
             [v \in 1..Len(VertexPoints) |-> IF v = 3 THEN 100 ELSE 1000],
             [v \in 1..Len(VertexPoints) |-> 100])}
CxsNames == {<<96 + n>> \o DotCxs : n \in 1..MaxBatch}

InitBatch ==
    /\ script \in Scripts
    /\ \E names \in SUBSET CxsNames : directory \in [names -> BatchFiles]
    /\ cxs_register = <<>>
    /\ cxs_file = <<>>
    /\ cxs_content = <<>>
    /\ vertices_coordinates = <<>>
    /\ indices_list = <<>>
    /\ di_list = <<>>
    /\ de_list = <<>>
    /\ computed_triangles = <<>>
    /\ recorder_register = <<>>
    /\ integral_area = 0
    /\ normalized_register = <<>>
    /\ dat_register = <<>>
    /\ pc = "main"
    /\ IdleRR
    /\ IdleM

\* lines 389-394 (file_search of fingerprint_heron.py): the names of the
\* .cxs files of the directory, sorted
main ==
    /\ pc = "main"
    /\ cxs_register' = SortedNames({name \in DOMAIN directory : EndsWith(name, DotCxs)})
    /\ pc' = "for"
    /\ UNCHANGED <<script, cxs_content, vertices_coordinates, indices_list, di_list,
                   de_list, computed_triangles, recorder_register, integral_area,
                   normalized_register, dat_register, directory, cxs_file>>
    /\ UNCHANGED varsRR
    /\ UNCHANGED varsM

\* lines 396-397: the for loop of main() takes the next name once the file
\* before is written and makes a Worker for it; an exception raised for the
\* file before has ended the script.  The local variables of the methods
\* (integral_area, dat_register) do not outlive their call.
Worker ==
    /\ pc \in {"for", "done"}
    /\ script # "fingerprint_heron"
    /\ cxs_register # <<>>
    /\ cxs_file' = Head(cxs_register)
    /\ cxs_register' = Tail(cxs_register)
    /\ cxs_content' = Fresh(cxs_content)
    /\ vertices_coordinates' = Fresh(vertices_coordinates)
    /\ indices_list' = Fresh(indices_list)
    /\ di_list' = Fresh(di_list)
    /\ de_list' = Fresh(de_list)
    /\ computed_triangles' = Fresh(computed_triangles)
    /\ recorder_register' = Fresh(recorder_register)
    /\ normalized_register' = Fresh(normalized_register)
    /\ integral_area' = 0
    /\ dat_register' = <<>>
    /\ pc' = "file_reader"
    /\ UNCHANGED <<script, directory>>
    /\ UNCHANGED varsRR
    /\ UNCHANGED varsM

\* fingerprint_heron.py, lines 384-386: the for loop of worker() takes the
\* next name; the global lists stay as the file before left them
worker ==
    /\ pc \in {"for", "done"}
    /\ script = "fingerprint_heron"
    /\ cxs_register # <<>>
    /\ cxs_file' = Head(cxs_register)
    /\ cxs_register' = Tail(cxs_register)
    /\ integral_area' = 0
    /\ dat_register' = <<>>
    /\ pc' = "file_reader"
    /\ UNCHANGED <<script, directory, cxs_content, vertices_coordinates, indices_list,
                   di_list, de_list, computed_triangles, recorder_register,
                   normalized_register>>
    /\ UNCHANGED varsRR
    /\ UNCHANGED varsM

NextBatch ==
    \/ main
    \/ Worker
    \/ worker
    \/ file_reader
    \/ readout_vertices_count
    \/ readout_indices_count
    \/ readout_di_count
    \/ readout_de_count
    \/ triangle_surfaces
    \/ triangle_surfaces_rr
    \/ triangle_surfaces_heron
    \/ numpy_free_area_binning
    \/ dat_file_generation

SpecBatch == InitBatch /\ [][NextBatch]_vars

(***************************************************************************)
(* .dat files                                                              *)
(***************************************************************************)
\* A line of a .dat file is <<>> (blank, "\n") or the data row
\* <<d_i, d_e, value>> ("d_i d_e value\n", two and eight decimals).
BlankLine == <<>>
IsData(line) == Len(line) = 3

\* is pattern a substring of text
HasSub(text, pattern) ==
    \E n \in 1..(Len(text) - Len(pattern) + 1) :
        SubSeq(text, n, n + Len(pattern) - 1) = pattern

\* "{:9.8f}" / "{:10.8f}" of a value: sign, whole digits, point, 8 decimals
Fmt8Len(value) ==
    (IF value[1] < 0 THEN 1 ELSE 0) + Len(Digits(DecAbs(value)[1])) + 9

\* len(line), the line feed counted
LineLen(line) ==
    IF IsData(line)
    THEN Len(Fmt2(line[1])) + 1 + Len(Fmt2(line[2])) + 1 + Fmt8Len(line[3]) + 1
    ELSE 1

\* lines 378-384 of fingerprint_kahan.py: the register written as a file, a
\* blank line after each entry whose d_e column contains "3.00"
RECURSIVE DatLines(_)
DatLines(register) ==
    IF register = <<>> THEN <<>>
    ELSE (IF HasSub(Fmt2(Head(register)[2]), <<51, 46, 48, 48>>)
          THEN <<Head(register), BlankLine>> ELSE <<Head(register)>>)
             \o DatLines(Tail(register))

DataRows(lines) == SelectSeq(lines, IsData)

(***************************************************************************)
(* difference_maps_python: one pair                                        *)
(***************************************************************************)
\* first column of a line; a blank line has none (IndexError)
HasFirstColumn(lines, n) == n <= Len(lines) /\ IsData(lines[n])

\* lines 419-426 can be evaluated: both files have two leading data rows
StartReadable(reference_map, probe_map) ==
    /\ HasFirstColumn(reference_map, 1) /\ HasFirstColumn(reference_map, 2)
    /\ HasFirstColumn(probe_map, 1) /\ HasFirstColumn(probe_map, 2)

\* " ".join of the first columns of the first two lines
StartOf(lines) == Fmt2(lines[1][1]) \o <<32>> \o Fmt2(lines[2][1])

\* the check without the comparison of the line counts
ConsistentStartOnly(reference_map, probe_map) ==
    StartOf(reference_map) = StartOf(probe_map)

\* lines 428-435: the consistency check
Consistent(reference_map, probe_map) ==
    /\ StartOf(reference_map) = StartOf(probe_map)
    /\ Len(reference_map) = Len(probe_map)

\* the loop with probe minus reference
RECURSIVE DifferenceLoopSwapped(_, _)
DifferenceLoopSwapped(reference_map, probe_map) ==
    IF reference_map = <<>> \/ probe_map = <<>> THEN <<FALSE, <<>>>>
    ELSE LET reference == Head(reference_map)
             probe == Head(probe_map)
             rest == DifferenceLoopSwapped(Tail(reference_map), Tail(probe_map))
         IN  IF LineLen(reference) < 5
             THEN <<rest[1], <<BlankLine>> \o rest[2]>>
             ELSE IF LineLen(reference) > 5
             THEN IF ~IsData(probe) THEN <<TRUE, <<>>>>
                  ELSE <<rest[1],
                         <<<<reference[1], reference[2],
                             DecSub(probe[3], reference[3])>>>> \o rest[2]>>
             ELSE rest

\* the loop with the absolute value of the difference
RECURSIVE DifferenceLoopAbsolute(_, _)
DifferenceLoopAbsolute(reference_map, probe_map) ==
    IF reference_map = <<>> \/ probe_map = <<>> THEN <<FALSE, <<>>>>
    ELSE LET reference == Head(reference_map)
             probe == Head(probe_map)
             rest == DifferenceLoopAbsolute(Tail(reference_map), Tail(probe_map))
         IN  IF LineLen(reference) < 5
             THEN <<rest[1], <<BlankLine>> \o rest[2]>>
             ELSE IF LineLen(reference) > 5
             THEN IF ~IsData(probe) THEN <<TRUE, <<>>>>
                  ELSE <<rest[1],
                         <<<<reference[1], reference[2],
                             DecAbs(DecSub(reference[3], probe[3]))>>>> \o rest[2]>>
             ELSE rest

\* lines 439-453: the loop over zip(reference_map, probe_map);
\* <<failed, difference_map>>
RECURSIVE DifferenceLoop(_, _)
DifferenceLoop(reference_map, probe_map) ==
    IF reference_map = <<>> \/ probe_map = <<>> THEN <<FALSE, <<>>>>
    ELSE LET reference == Head(reference_map)
             probe == Head(probe_map)
             rest == DifferenceLoop(Tail(reference_map), Tail(probe_map))
         IN  IF LineLen(reference) < 5
             THEN <<rest[1], <<BlankLine>> \o rest[2]>>
             ELSE IF LineLen(reference) > 5
             THEN IF ~IsData(probe) THEN <<TRUE, <<>>>>
                  ELSE <<rest[1],
                         <<<<reference[1], reference[2],
                             DecSub(reference[3], probe[3])>>>> \o rest[2]>>
             ELSE rest

\* lines 457-459: difference_map[:-1], one line per entry
Report(difference_map) ==
    IF difference_map = <<>> THEN <<>>
    ELSE SubSeq(difference_map, 1, Len(difference_map) - 1)

\* the body of the for loop for one pair: <<"error">> (an exception ends
\* the script), <<"skip">> or <<"write", lines of the difference map>>
PairOutcome(reference_map, probe_map) ==
    IF ~StartReadable(reference_map, probe_map) THEN <<"error">>
    ELSE IF ~Consistent(reference_map, probe_map) THEN <<"skip">>
    ELSE LET loop == DifferenceLoop(reference_map, probe_map)
         IN  IF loop[1] THEN <<"error">> ELSE <<"write", Report(loop[2])>>

(***************************************************************************)
(* File names                                                              *)
(***************************************************************************)
\* line 456
OutputName(reference_file, probe_file) ==
    DiffText \o Underscore \o DropLast4(reference_file) \o Underscore \o probe_file

\* the register with the difference maps of the folder in it
TournamentNamesWithMaps(dir) == {name \in DOMAIN dir : EndsWith(name, DotDat)}

\* lines 394-397: the register of the tournament
TournamentNames(dir) ==
    {name \in DOMAIN dir : EndsWith(name, DotDat) /\ ~StartsWith(name, DiffText)}

\* fnmatch(file, "diff*.dat")
NumberNames(dir) ==
    {name \in DOMAIN dir : EndsWith(name, DotDat) /\ StartsWith(name, DiffText)
                               /\ Len(name) >= 8}

\* the sum of the differences with their signs
DifferenceNumberSigned(lines) ==
    LET long == SelectSeq(lines, LAMBDA line : LineLen(line) > 2)
    IN  DecSum([n \in 1..Len(long) |-> long[n][3]])

\* the sum taken over the second column
DifferenceNumberSecondColumn(lines) ==
    LET long == SelectSeq(lines, LAMBDA line : LineLen(line) > 2)
    IN  DecSum([n \in 1..Len(long) |->
                   <<Abs(long[n][2]) \div 100, (Abs(long[n][2]) % 100) * 1000000>>])

\* every line counted twice
DifferenceNumberTwice(lines) ==
    LET long == SelectSeq(lines, LAMBDA line : LineLen(line) > 2)
    IN  DecSum([n \in 1..Len(long) |-> DecAbs(long[n][3])] \o
               [n \in 1..Len(long) |-> DecAbs(long[n][3])])

\* lines 512-517: the sum over the lines longer than two characters
DifferenceNumber(lines) ==
    LET long == SelectSeq(lines, LAMBDA line : LineLen(line) > 2)
    IN  DecSum([n \in 1..Len(long) |-> DecAbs(long[n][3])])

(***************************************************************************)
(* The comparison stage of hirshfeld_moderator.py                          *)
(***************************************************************************)
\* The .dat files met in cxs_workshop: up to MaxFiles files a.dat, b.dat,
\* ..., each one of the contents below.  Dense grids are cut down to their
\* last two d_e columns (2.99, 3.00) to keep the files short.
MaxFiles == 3

Square(first_di, values) ==
    << <<first_di, 299, values[1]>>, <<first_di, 300, values[2]>>,
       <<first_di + 1, 299, values[3]>>, <<first_di + 1, 300, values[4]>> >>

\* two fingerprints of the same range, one of a translated range, one of a
\* wider range
FileA == DatLines(Square(40, <<<<100, 0>>, DecZero, DecZero, DecZero>>))
FileB == DatLines(Square(40, <<<<33, 33333333>>, <<66, 66666667>>, DecZero, DecZero>>))
FileC == DatLines(Square(40, <<DecZero, DecZero, DecZero, <<100, 0>>>>))
FileT == DatLines(Square(80, <<<<100, 0>>, DecZero, DecZero, DecZero>>))
FileW == DatLines(Square(40, <<<<50, 0>>, <<50, 0>>, DecZero, DecZero>>)
                      \o << <<42, 299, DecZero>>, <<42, 300, DecZero>> >>)
\* two fingerprints with a bin beyond the grid, as the worker writes them
FileX == DatLines(Square(40, <<<<60, 0>>, DecZero, DecZero, DecZero>>)
                      \o << <<350, 100, <<40, 0>>>> >>)
FileY == DatLines(Square(40, <<DecZero, DecZero, DecZero, DecZero>>)
                      \o << <<350, 100, <<100, 0>>>> >>)
\* two fingerprints of equal line count with bins beyond the grid: two rows,
\* and one row with d_e = 3.00 and the blank line after it
FileQ == DatLines(Square(40, <<DecZero, DecZero, DecZero, DecZero>>)
                      \o << <<350, 100, <<50, 0>>>>, <<350, 200, <<50, 0>>>> >>)
FileP == DatLines(Square(40, <<DecZero, DecZero, DecZero, DecZero>>)
                      \o << <<350, 300, <<100, 0>>>> >>)
\* one d_i with five and with four d_e
FileL == DatLines(<< <<40, 296, <<20, 0>>>>, <<40, 297, <<20, 0>>>>,
                     <<40, 298, <<20, 0>>>>, <<40, 299, <<20, 0>>>>,
                     <<40, 300, <<20, 0>>>> >>)
FileS == DatLines(<< <<40, 297, <<25, 0>>>>, <<40, 298, <<25, 0>>>>,
                     <<40, 299, <<25, 0>>>>, <<40, 300, <<25, 0>>>> >>)
\* an empty file and a file of one line
FileEmpty == <<>>
FileOne == << <<40, 40, <<100, 0>>>> >>

Contents == {FileA, FileB, FileC, FileT, FileW, FileX, FileY, FileQ, FileP, FileL, FileS,
             FileEmpty, FileOne}

FileNames == {<<96 + n>> \o DotDat : n \in 1..MaxFiles}

IdleFP ==
    /\ script = "none"
    /\ cxs_content = <<>>
    /\ vertices_coordinates = <<>>
    /\ indices_list = <<>>
    /\ di_list = <<>>
    /\ de_list = <<>>
    /\ computed_triangles = <<>>
    /\ recorder_register = <<>>
    /\ integral_area = 0
    /\ normalized_register = <<>>
    /\ dat_register = <<>>
    /\ pc = "idle"
    /\ directory = <<>>
    /\ cxs_register = <<>>
    /\ cxs_file = <<>>

InitRR ==
    /\ \E names \in SUBSET FileNames : folder \in [names -> Contents]
    /\ diff_register = <<>>
    /\ cursor = 0
    /\ printed = <<>>
    /\ written = <<>>
    /\ numbers = <<>>
    /\ earlier = <<>>
    /\ pcR = "listdir"
    /\ IdleFP
    /\ IdleM

\* lines 391-397
list_files ==
    /\ pcR = "listdir"
    /\ diff_register' = SortedNames(TournamentNames(folder))
    /\ cursor' = 1
    /\ pcR' = IF Cardinality(TournamentNames(folder)) > 1 THEN "compare" ELSE "done"
    /\ UNCHANGED <<folder, printed, written, numbers>>
    /\ UNCHANGED earlier
    /\ UNCHANGED varsFP
    /\ UNCHANGED varsM

\* lines 402-459: one pass of the for loop over diff_register[1:]
compare_pair ==
    /\ pcR = "compare"
    /\ cursor < Len(diff_register)
    /\ LET reference_file == diff_register[1]
           probe_file == diff_register[cursor + 1]
           outcome == PairOutcome(folder[reference_file], folder[probe_file])
           output == OutputName(reference_file, probe_file)
       IN  /\ printed' = Append(printed, <<reference_file, probe_file>>)
           /\ IF outcome[1] = "error"
              THEN pcR' = "failed" /\ UNCHANGED <<folder, written, cursor>>
              ELSE IF outcome[1] = "skip"
              THEN cursor' = cursor + 1 /\ UNCHANGED <<folder, written, pcR>>
              ELSE /\ folder' = [name \in DOMAIN folder \cup {output} |->
                                    IF name = output THEN outcome[2] ELSE folder[name]]
                   /\ written' = Append(written, output)
                   /\ cursor' = cursor + 1
                   /\ UNCHANGED pcR
    /\ UNCHANGED <<diff_register, numbers>>
    /\ UNCHANGED earlier
    /\ UNCHANGED varsFP
    /\ UNCHANGED varsM

\* line 460 and the test of the while loop
next_round ==
    /\ pcR = "compare"
    /\ cursor >= Len(diff_register)
    /\ diff_register' = Tail(diff_register)
    /\ cursor' = 1
    /\ pcR' = IF Len(diff_register) - 1 > 1 THEN "compare" ELSE "done"
    /\ UNCHANGED <<folder, printed, written, numbers>>
    /\ UNCHANGED earlier
    /\ UNCHANGED varsFP
    /\ UNCHANGED varsM

\* lines 502-518, run on the folder the comparison left
difference_number_python ==
    /\ pcR = "done"
    /\ numbers' = [n \in 1..Cardinality(NumberNames(folder)) |->
                      <<SortedNames(NumberNames(folder))[n],
                        DifferenceNumber(folder[SortedNames(NumberNames(folder))[n]])>>]
    /\ pcR' = "numbered"
    /\ UNCHANGED <<folder, diff_register, cursor, printed, written>>
    /\ UNCHANGED earlier
    /\ UNCHANGED varsFP
    /\ UNCHANGED varsM

\* the stage called once more (option -c given again) on the folder the
\* first run left: lines 391-397 list the folder anew
second_run ==
    /\ pcR = "done"
    /\ earlier = <<>>
    /\ earlier' = <<printed, written, folder>>
    /\ printed' = <<>>
    /\ written' = <<>>
    /\ diff_register' = <<>>
    /\ cursor' = 0
    /\ pcR' = "listdir"
    /\ UNCHANGED <<folder, numbers>>
    /\ UNCHANGED varsFP
    /\ UNCHANGED varsM

NextRR ==
    \/ list_files
    \/ compare_pair
    \/ next_round
    \/ difference_number_python
    \/ second_run

SpecRoundRobin == InitRR /\ [][NextRR]_vars

\* The stage on fingerprints of one grid whose names hold underscores:
\* a_b.dat, a_b_a.dat and b_a.dat.
UnderscoreNames ==
    {<<97, 95, 98>> \o DotDat, <<97, 95, 98, 95, 97>> \o DotDat, <<98, 95, 97>> \o DotDat}

InitNames ==
    /\ \E names \in SUBSET UnderscoreNames : folder \in [names -> {FileA, FileB, FileC}]
    /\ diff_register = <<>>
    /\ cursor = 0
    /\ printed = <<>>
    /\ written = <<>>
    /\ numbers = <<>>
    /\ earlier = <<>>
    /\ pcR = "listdir"
    /\ IdleFP
    /\ IdleM

SpecNames == InitNames /\ [][NextRR]_vars

(***************************************************************************)
(* hirshfeld_moderator.py: the stages of one invocation                    *)
(***************************************************************************)
\* The options of the command line looked at: -j, -n, -c, -r, --fpng and
\* --fpdf.  The project folder has the surface a.cxs, a sub-folder of it the
\* surface b.cxs; cxs_workshop is missing, empty, or holds the two surfaces
\* without or with their fingerprints.  The images a map stage writes are
\* not kept in the model.
Flags == {"join", "normalize_py", "compare_py", "ruby_number_py", "fpng", "fpdf"}
FolderCxs == {"a.cxs"}
SubfolderCxs == {"b.cxs"}
Workshops == {<<>>, <<{}>>, <<{"a.cxs", "b.cxs"}>>,
              <<{"a.cxs", "b.cxs", "a.dat", "b.dat"}>>}

\* lines 1259-1320: the calls the options lead to, in their order
StagesOf(flags) ==
    (IF "join" \in flags THEN <<"assemble_cxs", "rename_cxs">> ELSE <<>>)
        \o (IF "normalize_py" \in flags THEN <<"fingerprint_python">> ELSE <<>>)
        \o (IF "compare_py" \in flags THEN <<"difference_maps_python">> ELSE <<>>)
        \o (IF "ruby_number_py" \in flags THEN <<"difference_number_python">> ELSE <<>>)
        \o (IF "fpng" \in flags THEN <<"search_dat", "png_map">> ELSE <<>>)
        \o (IF "fpdf" \in flags THEN <<"search_dat", "pdf_map">> ELSE <<>>)

InitModerator ==
    /\ cwd = "root"
    /\ workshop \in Workshops
    /\ \E flags \in SUBSET Flags : stages = StagesOf(flags)
    /\ assemble_choice = 0
    /\ pcM = "run"
    /\ IdleFP
    /\ IdleRR

\* the call that is next in the script
Called(stage) == pcM = "run" /\ stages # <<>> /\ Head(stages) = stage

\* the script after the call has returned
Returned == IF Len(stages) = 1 THEN "exit" ELSE "run"

\* os.chdir("cxs_workshop") finds the folder: the path is relative to the
\* working directory, and cxs_workshop has no folder of that name in it
Enters == cwd = "root" /\ workshop # <<>>

\* fingerprint_kahan.main() in cxs_workshop: a .dat for every .cxs
WithFingerprints(files) ==
    files \cup (IF "a.cxs" \in files THEN {"a.dat"} ELSE {})
          \cup (IF "b.cxs" \in files THEN {"b.dat"} ELSE {})

\* the tournament in cxs_workshop
WithDifferenceMaps(files) ==
    files \cup (IF {"a.dat", "b.dat"} \subseteq files THEN {"diff_a_b.dat"} ELSE {})

\* lines 182-211, with create_workshop (68-86), list_cxs and crawl_cxs
assemble_cxs ==
    /\ Called("assemble_cxs")
    /\ \E choice \in 0..2 :
           /\ assemble_choice' = choice
           /\ workshop' = <<IF choice = 1 THEN FolderCxs
                            ELSE IF choice = 2 THEN SubfolderCxs ELSE {}>>
    /\ stages' = Tail(stages)
    /\ pcM' = Returned
    /\ UNCHANGED cwd
    /\ UNCHANGED <<varsFP, varsRR>>

\* lines 139-157; no name of the model has an underscore
rename_cxs ==
    /\ Called("rename_cxs")
    /\ Enters
    /\ stages' = Tail(stages)
    /\ pcM' = Returned
    /\ UNCHANGED <<cwd, workshop, assemble_choice>>
    /\ UNCHANGED <<varsFP, varsRR>>

\* lines 284-299: the IOError of os.chdir is caught and the script exits
fingerprint_python ==
    /\ Called("fingerprint_python")
    /\ IF Enters
       THEN /\ cwd' = "cxs_workshop"
            /\ workshop' = <<WithFingerprints(workshop[1])>>
            /\ stages' = Tail(stages)
            /\ pcM' = Returned
       ELSE pcM' = "exit" /\ UNCHANGED <<cwd, workshop, stages>>
    /\ UNCHANGED assemble_choice
    /\ UNCHANGED <<varsFP, varsRR>>

\* lines 388-460: FileNotFoundError of os.chdir ends the script
difference_maps_python ==
    /\ Called("difference_maps_python")
    /\ IF Enters
       THEN /\ cwd' = "cxs_workshop"
            /\ workshop' = <<WithDifferenceMaps(workshop[1])>>
            /\ stages' = Tail(stages)
            /\ pcM' = Returned
       ELSE pcM' = "failed" /\ UNCHANGED <<cwd, workshop, stages>>
    /\ UNCHANGED assemble_choice
    /\ UNCHANGED <<varsFP, varsRR>>

\* lines 499-518, called for the option ruby_number_py
ruby_number_py ==
    /\ Called("difference_number_python")
    /\ IF Enters
       THEN cwd' = "cxs_workshop" /\ stages' = Tail(stages) /\ pcM' = Returned
       ELSE pcM' = "failed" /\ UNCHANGED <<cwd, stages>>
    /\ UNCHANGED <<workshop, assemble_choice>>
    /\ UNCHANGED <<varsFP, varsRR>>

\* lines 625-654: root = os.getcwd() ... os.chdir(root)
search_dat ==
    /\ Called("search_dat")
    /\ IF Enters
       THEN stages' = Tail(stages) /\ pcM' = Returned
       ELSE pcM' = "failed" /\ UNCHANGED stages
    /\ UNCHANGED <<cwd, workshop, assemble_choice>>
    /\ UNCHANGED <<varsFP, varsRR>>

\* lines 658-673
png_map ==
    /\ Called("png_map")
    /\ IF Enters
       THEN cwd' = "cxs_workshop" /\ stages' = Tail(stages) /\ pcM' = Returned
       ELSE pcM' = "failed" /\ UNCHANGED <<cwd, stages>>
    /\ UNCHANGED <<workshop, assemble_choice>>
    /\ UNCHANGED <<varsFP, varsRR>>

\* lines 815-831
pdf_map ==
    /\ Called("pdf_map")
    /\ IF Enters
       THEN cwd' = "cxs_workshop" /\ stages' = Tail(stages) /\ pcM' = Returned
       ELSE pcM' = "failed" /\ UNCHANGED <<cwd, stages>>
    /\ UNCHANGED <<workshop, assemble_choice>>
    /\ UNCHANGED <<varsFP, varsRR>>

NextModerator ==
    \/ assemble_cxs
    \/ rename_cxs
    \/ fingerprint_python
    \/ difference_maps_python
    \/ ruby_number_py
    \/ search_dat
    \/ png_map
    \/ pdf_map

SpecModerator == InitModerator /\ [][NextModerator]_vars

(***************************************************************************)
(* Claims about the fingerprint of one mesh                                *)
(***************************************************************************)
Range3(triple) == {triple[1], triple[2], triple[3]}

\* the two-decimal key <<d_i, d_e>> of a computed triangle
TriangleKey(triangle) == <<Round2(triangle[2]), Round2(triangle[1])>>

RECURSIVE AreaSum(_)
AreaSum(triangles) ==
    IF triangles = <<>> THEN 0 ELSE Head(triangles)[3] + AreaSum(Tail(triangles))

\* summed area of the accepted triangles of one key, and of all of them
AreaAt(key) == AreaSum(SelectSeq(computed_triangles, LAMBDA t : TriangleKey(t) = key))
TotalArea == AreaSum(computed_triangles)

\* sum of all values written to the .dat file (blank entries are 0.0)
DatSum == DecSum([n \in 1..Len(dat_register) |-> dat_register[n][3]])

\* | value - 100.0 | <= 1e-6
NearHundred(value) ==
    LET off == DecAbs(DecSub(value, <<100, 0>>))
    IN  off[1] = 0 /\ off[2] <= 100

\* C1: every fingerprint written has exactly 68 121 entries, one for each
\* grid point (d_i, d_e) of 0.40 .. 3.00, and no entry outside that grid.
C1_DenseGridOnly ==
    pc = "done" =>
        /\ DatEntryCount(dat_register) = 68121
        /\ DatKeys(dat_register) = Grid

\* C2: the values of a fingerprint with integral area > 0 sum to 100.0
\* within 1e-6.
C2_SumIsHundred ==
    (pc = "done" /\ integral_area > 0) => NearHundred(DatSum)

\* C3: the value at every key a triangle or an entry names is 100 times the
\* summed area of the accepted triangles of that key over the summed area of
\* all accepted triangles (printed with eight decimals); the grid points no
\* triangle names have the value 0 of the blank list; a mesh whose accepted
\* triangles share one in-grid key has one non-zero bin, of value 100.0.
C3_AreaShare ==
    (pc = "done" /\ TotalArea > 0) =>
        /\ \A key \in RegisterKeys(dat_register)
                         \cup {TriangleKey(computed_triangles[n]) :
                                   n \in 1..Len(computed_triangles)} :
               key \in Grid =>
                   DatValue(dat_register, key) = Percentage(AreaAt(key), TotalArea)
        /\ \A key \in Grid :
               (\A n \in 1..Len(computed_triangles) :
                    TriangleKey(computed_triangles[n]) = key)
               => /\ DatValue(dat_register, key) = <<100, 0>>
                  /\ \A n \in 1..Len(dat_register) :
                         dat_register[n][3] # DecZero
                             => <<dat_register[n][1], dat_register[n][2]>> = key

(***************************************************************************)
(* Claims about the triangle areas                                         *)
(***************************************************************************)
\* the lists of the mesh are read, the triangles not yet worked on
ListsRead == pc = "triangle_surfaces"

\* the triangles are worked on without an exception
TrianglesDone == pc \in {"numpy_free_area_binning", "dat_file_generation", "done"}

\* the line of indices names three stored vertices
NamesPoints(line) == PointsOf(line, vertices_coordinates)[1] = "points"
NamesAverages(line) == AveragesOf(line, di_list, de_list)[1] = "sums"

\* the three side lengths BC, AC, AB of the triangle of a line
SidesOf(line) ==
    LET points == PointsOf(line, vertices_coordinates)
    IN  <<Distance(points[3], points[4]), Distance(points[2], points[4]),
          Distance(points[2], points[3])>>

Longest(sides) == CHOOSE x \in Range3(sides) : \A y \in Range3(sides) : x >= y
Shortest(sides) == CHOOSE x \in Range3(sides) : \A y \in Range3(sides) : x <= y
Middle(sides) == sides[1] + sides[2] + sides[3] - Longest(sides) - Shortest(sides)

\* c - (a - b) < 0 for the sides a >= b >= c
Impossible(sides) == Shortest(sides) - (Longest(sides) - Middle(sides)) < 0

\* A * B * C * D for the sides a >= b >= c
KahanRadicand(sides) ==
    LET a == Longest(sides)
        b == Middle(sides)
        c == Shortest(sides)
    IN  (a + (b + c)) * (c - (a - b)) * (c + (a - b)) * (a + (b - c))

\* 0.25 * sqrt(A * B * C * D)
QuarterRoot(sides) == Sqrt(KahanRadicand(sides)) \div 4

\* the line with its three indices in another order
Reordered(line, order) ==
    DataLine("indices", <<line[3][order[1]], line[3][order[2]], line[3][order[3]]>>)

Orders == {<<1, 2, 3>>, <<1, 3, 2>>, <<2, 1, 3>>, <<2, 3, 1>>, <<3, 1, 2>>, <<3, 2, 1>>}

\* the records the Kahan policy is to give for the lines, in their order
RECURSIVE KahanRecords(_)
KahanRecords(lines) ==
    IF lines = <<>> THEN <<>>
    ELSE (IF Impossible(SidesOf(Head(lines))) THEN <<>>
          ELSE <<<<AveragesOf(Head(lines), di_list, de_list)[2],
                   AveragesOf(Head(lines), di_list, de_list)[3],
                   QuarterRoot(SidesOf(Head(lines)))>>>>)
             \o KahanRecords(Tail(lines))

\* C12: fingerprint_kahan.py orders the sides of every triangle as
\* a >= b >= c whatever the order of its vertices, passes over the triangle
\* exactly when c - (a - b) < 0, and else records the area
\* 0.25 * sqrt(A * B * C * D); a triangle with a side of MinSide or less is
\* recorded like any other.
C12_KahanPolicy ==
    /\ ListsRead =>
           \A n \in 1..Len(indices_list) : \A order \in Orders :
               NamesPoints(indices_list[n]) =>
                   LET line == Reordered(indices_list[n], order)
                       sorted == SortedSides(SidesOf(line)[1], SidesOf(line)[2],
                                             SidesOf(line)[3])
                       result == TriangleOf(line, vertices_coordinates, di_list, de_list)
                   IN  /\ sorted[1] >= sorted[2] /\ sorted[2] >= sorted[3]
                       /\ sorted = <<Longest(SidesOf(indices_list[n])),
                                     Middle(SidesOf(indices_list[n])),
                                     Shortest(SidesOf(indices_list[n]))>>
                       /\ (result = <<"skip">>) <=> Impossible(SidesOf(indices_list[n]))
                       /\ (~Impossible(SidesOf(indices_list[n])) /\ NamesAverages(line))
                              => /\ result[1] = "triangle"
                                 /\ result[2][3] = QuarterRoot(SidesOf(indices_list[n]))
    /\ (TrianglesDone /\ script = "fingerprint_kahan") =>
           computed_triangles = SortSeq(KahanRecords(indices_list), TriangleBefore)

C12_ShortSideKept ==
    /\ TrianglesDone
    /\ script = "fingerprint_kahan"
    /\ \E n \in 1..Len(indices_list) : Impossible(SidesOf(indices_list[n]))
    /\ \E n \in 1..Len(indices_list) :
           /\ ~Impossible(SidesOf(indices_list[n]))
           /\ Shortest(SidesOf(indices_list[n])) <= MinSide
           /\ QuarterRoot(SidesOf(indices_list[n])) > 0
    /\ Len(computed_triangles) = 1
    /\ computed_triangles[1][3] > 0

\* two areas agree within 1e-9 of the first
WithinTolerance(area, other) == Abs(area - other) <= area \div 1000000000

\* C13: for every triangle whose sides satisfy the triangle inequality
\* fingerprint_heron.py records an area, and it is the area that
\* fingerprint_kahan.py records, within 1e-9 of it; the radicand
\* A * B * C * D is 16 * s * (s - a) * (s - b) * (s - c).
C13_HeronEqualsKahan ==
    /\ ListsRead =>
           \A n \in 1..Len(indices_list) :
               (/\ NamesPoints(indices_list[n])
                /\ NamesAverages(indices_list[n])
                /\ ~Impossible(SidesOf(indices_list[n]))) =>
                   LET sides == SidesOf(indices_list[n])
                       kahan == TriangleOf(indices_list[n], vertices_coordinates,
                                           di_list, de_list)
                       heron == TriangleOfHeron(indices_list[n], vertices_coordinates,
                                                di_list, de_list)
                   IN  /\ kahan[1] = "triangle"
                       /\ heron[1] = "triangle"
                       /\ WithinTolerance(kahan[2][3], heron[2][3])
                       /\ KahanRadicand(sides)
                              = HeronRadicand(sides[1], sides[2], sides[3])
    /\ (TrianglesDone /\ script = "fingerprint_heron") =>
           /\ Len(computed_triangles) = Len(KahanRecords(indices_list))
           /\ \A n \in 1..Len(computed_triangles) :
                  WithinTolerance(SortSeq(KahanRecords(indices_list), TriangleBefore)[n][3],
                                  computed_triangles[n][3])

\* the edge vectors AB, AC, BC of the triangle of a line
EdgesOf(line) ==
    LET points == PointsOf(line, vertices_coordinates)
    IN  <<Vector(points[2], points[3]), Vector(points[2], points[4]),
          Vector(points[3], points[4])>>

\* |v x w|^2 = |v|^2 |w|^2 - (v . w)^2
CrossSquare(v, w) == Dot(v, v) * Dot(w, w) - Dot(v, w) * Dot(v, w)

Collinear(line) == CrossSquare(EdgesOf(line)[1], EdgesOf(line)[2]) = 0

\* a side of 1e-4 Angstrom or less
ShortSide(line) ==
    \E k \in 1..3 : Dot(EdgesOf(line)[k], EdgesOf(line)[k]) <= MinSide * MinSide

\* 1 - cos^2 < 1e-7 for the angle of the edges AB and AC
FlatAngle(line) ==
    /\ Dot(EdgesOf(line)[1], EdgesOf(line)[1]) > 0
    /\ Dot(EdgesOf(line)[2], EdgesOf(line)[2]) > 0
    /\ CrossSquare(EdgesOf(line)[1], EdgesOf(line)[2])
           <= (Dot(EdgesOf(line)[1], EdgesOf(line)[1])
                   * Dot(EdgesOf(line)[2], EdgesOf(line)[2]) - 1) \div 10000000

DegenerateRR(line) == Collinear(line) \/ ShortSide(line) \/ FlatAngle(line)

AllDegenerateRR ==
    \A n \in 1..Len(indices_list) :
        NamesPoints(indices_list[n]) /\ DegenerateRR(indices_list[n])

LoopOf(lines) ==
    IF script = "fingerprint_kahan"
    THEN TriangleLoop(lines, vertices_coordinates, di_list, de_list)
    ELSE IF script = "fingerprint_rr"
    THEN TriangleLoopRR(lines, vertices_coordinates, di_list, de_list)
    ELSE TriangleLoopHeron(lines, vertices_coordinates, di_list, de_list)

\* what the script at work makes of a line of indices_list
ResultOf(line) ==
    IF script = "fingerprint_kahan"
    THEN TriangleOf(line, vertices_coordinates, di_list, de_list)
    ELSE IF script = "fingerprint_rr"
    THEN TriangleOfRR(line, vertices_coordinates, di_list, de_list)
    ELSE TriangleOfHeron(line, vertices_coordinates, di_list, de_list)

\* the script at work passes over the triangle of the line
PassedOver(line) == ResultOf(line) = <<"skip">>

\* the mesh without its degenerate triangles
Kept(lines) == SelectSeq(lines, LAMBDA line : ~PassedOver(line))

\* the fingerprint the script writes for a list of triangles
FingerprintOf(lines) ==
    LET scan == AreaScan(Append(PreBinned(SortSeq(LoopOf(lines)[2], TriangleBefore)),
                                StopWord), <<>>, 0, 0, <<>>)
    IN  DatRegister(Normalized(Tail(scan[1]), scan[2]))

\* C15: a triangle fingerprint_kahan.py or fingerprint_rr.py passes over
\* raises no error and leaves no trace: the loop fails only if it fails
\* without the degenerate triangles too, every other triangle of the mesh,
\* those listed after a degenerate one included, has its record, and the
\* fingerprint written is the fingerprint of the mesh without its
\* degenerate triangles.
C15_DegenerateLeavesNoTrace ==
    script \in {"fingerprint_kahan", "fingerprint_rr"} =>
        /\ ListsRead => (LoopOf(indices_list)[1] <=> LoopOf(Kept(indices_list))[1])
        /\ TrianglesDone =>
               /\ Len(computed_triangles) = Len(Kept(indices_list))
               /\ computed_triangles
                      = SortSeq(LoopOf(Kept(indices_list))[2], TriangleBefore)
        /\ pc = "done" => dat_register = FingerprintOf(Kept(indices_list))

C15_TriangleAfterDegenerate ==
    /\ script \in {"fingerprint_kahan", "fingerprint_rr"}
    /\ pc = "done"
    /\ Len(indices_list) = 2
    /\ PassedOver(indices_list[1])
    /\ ~PassedOver(indices_list[2])
    /\ Len(computed_triangles) = 1
    /\ dat_register # <<>>

(***************************************************************************)
(* Claims about the readouts                                               *)
(***************************************************************************)
\* the place of the begin marker of a section and of the first end marker
\* after it, 0 if there is none
BeginAt(lines, section) ==
    LET places == {i \in 1..Len(lines) : lines[i][1] = "begin" /\ lines[i][2] = section}
    IN  IF places = {} THEN 0
        ELSE CHOOSE i \in places : \A j \in places : i <= j

EndAfter(lines, section) ==
    LET places == {i \in 1..Len(lines) :
                       /\ i > BeginAt(lines, section)
                       /\ lines[i][1] = "end" /\ lines[i][2] = section}
    IN  IF places = {} THEN 0
        ELSE CHOOSE i \in places : \A j \in places : i <= j

Terminated(lines, section) ==
    BeginAt(lines, section) > 0 /\ EndAfter(lines, section) > 0

Between(lines, section) ==
    SubSeq(lines, BeginAt(lines, section) + 1, EndAfter(lines, section) - 1)

\* the readouts in the order of the script at work
ReadoutOrder ==
    IF script = "fingerprint_heron"
    THEN <<"vertices", "indices", "d_e", "d_i">>
    ELSE <<"vertices", "indices", "d_i", "d_e">>

ReadoutOf(section) ==
    IF section = "vertices" THEN "readout_vertices_count"
    ELSE IF section = "indices" THEN "readout_indices_count"
    ELSE IF section = "d_i" THEN "readout_di_count"
    ELSE "readout_de_count"

StoredOf(section) ==
    IF section = "vertices" THEN vertices_coordinates
    ELSE IF section = "indices" THEN indices_list
    ELSE IF section = "d_i" THEN di_list
    ELSE de_list

\* the readout of the k-th section of the order has run
HasRun(k) ==
    /\ pc \notin {"file_reader", "failed"}
    /\ \A j \in 1..k : pc # ReadoutOf(ReadoutOrder[j])

\* C16: for each of the four sections whose begin marker is followed by an
\* end marker, the readout does not fail and stores, in the order of the
\* file, exactly the lines between the begin marker and the first end marker
\* after it: the begin line is the one line dropped, the first stored entry
\* is the first data line of the section.
C16_LinesBetweenMarkers ==
    \A k \in 1..4 :
        LET section == ReadoutOrder[k]
        IN  Terminated(cxs_content, section) =>
                /\ pc = ReadoutOf(section) =>
                       Collect(cxs_content, section, FALSE) # <<>>
                /\ HasRun(k) =>
                       /\ StoredOf(section) = Between(cxs_content, section)
                       /\ Len(StoredOf(section))
                              = EndAfter(cxs_content, section)
                                    - BeginAt(cxs_content, section) - 1
                       /\ \A n \in 1..Len(StoredOf(section)) :
                              StoredOf(section)[n]
                                  = cxs_content[BeginAt(cxs_content, section) + n]

C16_AllSectionsStored ==
    /\ pc = "done"
    /\ \A k \in 1..4 : Terminated(cxs_content, ReadoutOrder[k])
    /\ BeginAt(cxs_content, "indices") > 1
    /\ EndAfter(cxs_content, "indices") < Len(cxs_content)
    /\ Len(indices_list) = 2
    /\ indices_list[1] = cxs_content[BeginAt(cxs_content, "indices") + 1]
    /\ indices_list[1][1] = "data"
    /\ Len(vertices_coordinates) = Len(VertexPoints)
    /\ Len(di_list) = Len(VertexPoints)
    /\ Len(de_list) = Len(VertexPoints)

\* the count the header of a section declares
DeclaredCount(lines, section) == lines[BeginAt(lines, section)][3]

\* all four readouts have run
MeshRead == HasRun(4)

\* C17: once the mesh is read, each of the four lists holds as many entries
\* as the header of its section declares, and no fingerprint is written
\* for a file in which a list and its header differ.
C17_StoredCountIsDeclared ==
    MeshRead =>
        \A section \in Sections :
            BeginAt(cxs_content, section) > 0 =>
                Len(StoredOf(section)) = DeclaredCount(cxs_content, section)

\* the section has a begin marker and no end marker after it
Unterminated(lines, section) ==
    BeginAt(lines, section) > 0 /\ EndAfter(lines, section) = 0

\* C18: a file with a section whose begin marker has no end marker is not
\* read: the readout of that section does not complete, no line of another
\* section is stored as data of the section, and no fingerprint is written.
C18_UnterminatedSectionFails ==
    \A k \in 1..4 :
        LET section == ReadoutOrder[k]
        IN  Unterminated(cxs_content, section) =>
                /\ ~HasRun(k)
                /\ \A n \in 1..Len(StoredOf(section)) :
                       StoredOf(section)[n][2] = section
                /\ pc # "done"

\* a line of three whole numbers of which one is no index of a vertex
InvalidIndex(line) ==
    /\ IsIndexLine(line)
    /\ \E k \in 1..3 :
           line[3][k] < 0 \/ line[3][k] >= Len(vertices_coordinates)

\* C19: a triangle that names a vertex index below 0 or not below the
\* number of stored vertices makes the processing fail: no record is
\* computed for it from another vertex, the loop over the triangles does not
\* complete and no fingerprint is written.
C19_InvalidIndexFails ==
    /\ ListsRead =>
           \A n \in 1..Len(indices_list) :
               InvalidIndex(indices_list[n])
                   => /\ ResultOf(indices_list[n]) = <<"error">>
                      /\ LoopOf(indices_list)[1]
    /\ (MeshRead /\ \E n \in 1..Len(indices_list) : InvalidIndex(indices_list[n]))
           => pc = "triangle_surfaces"

\* C20: a mesh whose integral area is zero, for want of an accepted
\* triangle or because every accepted triangle has area 0, fails in the
\* normalisation: the binning does not complete and no fingerprint is
\* written.
C20_EmptySurfaceFails ==
    pc \in {"dat_file_generation", "done"} => integral_area > 0

(***************************************************************************)
(* Claims about the round-robin comparison                                 *)
(***************************************************************************)
Range(seq) == {seq[n] : n \in 1..Len(seq)}

\* the pair of the m-th "Comparison" message
ReferenceOf(m) == folder[printed[m][1]]
ProbeOf(m) == folder[printed[m][2]]
OutputOf(m) == OutputName(printed[m][1], printed[m][2])

\* the m-th pair was handled to its end / got its file / was passed over
Completed(m) == m < Len(printed) \/ pcR # "failed"
Written(m) == OutputOf(m) \in Range(written)
Skipped(m) == Completed(m) /\ ~Written(m)

EntryCount(lines) == Len(DataRows(lines))
FirstDi(lines) == DataRows(lines)[1][1]
SameLayout(a, b) ==
    Len(a) = Len(b) /\ \A n \in 1..Len(a) : IsData(a[n]) <=> IsData(b[n])

\* position in the file of its k-th data row
RECURSIVE LineOfRow(_, _, _)
LineOfRow(lines, k, n) ==
    IF IsData(lines[n]) THEN (IF k = 1 THEN n ELSE LineOfRow(lines, k - 1, n + 1))
    ELSE LineOfRow(lines, k, n + 1)

\* two files of the same grid: same layout of rows and blank lines, same
\* first d_i
SameGrid(a, b) ==
    /\ EntryCount(a) >= 2 /\ EntryCount(b) >= 2
    /\ IsData(a[1]) /\ IsData(a[2])
    /\ SameLayout(a, b)
    /\ a[1][1] = b[1][1] /\ a[2][1] = b[2][1]

MutuallyCompatible ==
    \A x, y \in TournamentNames(folder) : SameGrid(folder[x], folder[y])

PairBefore(s, t) == StrLess(s[1], t[1]) \/ (s[1] = t[1] /\ StrLess(s[2], t[2]))

\* C4: for n mutually compatible fingerprints the tournament writes
\* n(n-1)/2 difference maps, one for each unordered pair, the earlier name
\* as the reference, no pair twice or reversed, in the order of the names
\* (A-B, A-C, B-C).
C4_EachPairOnce ==
    MutuallyCompatible =>
        /\ Len(written) = Len(printed)
        /\ \A m \in 1..Len(printed) :
               /\ StrLess(printed[m][1], printed[m][2])
               /\ written[m] = OutputOf(m)
               /\ \A l \in 1..Len(printed) :
                      m < l => /\ PairBefore(printed[m], printed[l])
                               /\ printed[l] # <<printed[m][2], printed[m][1]>>
        /\ pcR \in {"done", "numbered"} =>
               /\ 2 * Len(written) = Cardinality(TournamentNames(folder))
                                         * (Cardinality(TournamentNames(folder)) - 1)
               /\ \A x, y \in TournamentNames(folder) :
                      StrLess(x, y) => /\ <<x, y>> \in Range(printed)
                                       /\ OutputName(x, y) \in DOMAIN folder

C4_ThreeCompared ==
    /\ pcR = "done"
    /\ MutuallyCompatible
    /\ Cardinality(TournamentNames(folder)) = 3
    /\ Len(written) = 3

\* C5: the k-th data row of a difference map has the d_i and d_e of the
\* k-th data row of the reference and the value of that row minus the value
\* of the probe line at the same position of its file, which is the k-th
\* data row of the probe when the two files have the same layout.
C5_ReferenceMinusProbe ==
    \A m \in 1..Len(printed) :
        Written(m) =>
            LET rows == DataRows(folder[OutputOf(m)])
                reference == DataRows(ReferenceOf(m))
            IN  \A k \in 1..Len(rows) :
                    /\ rows[k][1] = reference[k][1]
                    /\ rows[k][2] = reference[k][2]
                    /\ rows[k][3] = DecSub(reference[k][3],
                                           ProbeOf(m)[LineOfRow(ReferenceOf(m), k, 1)][3])
                    /\ SameLayout(ReferenceOf(m), ProbeOf(m))
                           => rows[k][3] = DecSub(reference[k][3],
                                                  DataRows(ProbeOf(m))[k][3])

C5_DifferenceWritten ==
    \E m \in 1..Len(printed) :
        /\ Written(m)
        /\ \E k \in 1..EntryCount(folder[OutputOf(m)]) :
               /\ DataRows(folder[OutputOf(m)])[k][3] # DecZero
               /\ DataRows(ProbeOf(m))[k][3] # DecZero

C7_CountMismatchSkipped ==
    \A m \in 1..Len(printed) :
        EntryCount(ReferenceOf(m)) # EntryCount(ProbeOf(m)) => Skipped(m)

\* C8: a difference map has one data row for each data row of its reference
\* and its blank lines where the reference has them.
C8_SameShape ==
    \A m \in 1..Len(printed) :
        Written(m) =>
            /\ EntryCount(folder[OutputOf(m)]) = EntryCount(ReferenceOf(m))
            /\ \A n \in 1..Len(folder[OutputOf(m)]) :
                   IsData(folder[OutputOf(m)][n]) <=> IsData(ReferenceOf(m)[n])

\* C9: the values of the difference map written for (A, B) are the negated
\* values of the difference map of (B, A), line by line; the two maps have
\* the same coordinates wherever A and B have; (B, A) has a map whenever A
\* and B are files of the same grid.
C9_Antisymmetric ==
    \A m \in 1..Len(printed) :
        Written(m) =>
            LET forth == folder[OutputOf(m)]
                back == PairOutcome(ProbeOf(m), ReferenceOf(m))
            IN  /\ SameGrid(ReferenceOf(m), ProbeOf(m)) => back[1] = "write"
                /\ back[1] = "write" =>
                       /\ Len(back[2]) = Len(forth)
                       /\ \A n \in 1..Len(forth) :
                              IsData(forth[n]) =>
                                  /\ IsData(back[2][n])
                                  /\ forth[n][3] = DecNeg(back[2][n][3])
                                  /\ (ReferenceOf(m)[n][1] = ProbeOf(m)[n][1]
                                         /\ ReferenceOf(m)[n][2] = ProbeOf(m)[n][2])
                                         => (forth[n][1] = back[2][n][1]
                                                /\ forth[n][2] = back[2][n][2])

C9_NonZeroBothWays ==
    \E m \in 1..Len(printed) :
        /\ Written(m)
        /\ SameGrid(ReferenceOf(m), ProbeOf(m))
        /\ ReferenceOf(m) # ProbeOf(m)
        /\ \E n \in 1..Len(folder[OutputOf(m)]) :
               /\ IsData(folder[OutputOf(m)][n])
               /\ folder[OutputOf(m)][n][3][1] < 0

\* C10: the difference map of a file and an identical copy of it is zero in
\* every row, and its difference number is 0.0.
C10_SelfDifferenceZero ==
    \A m \in 1..Len(printed) :
        (Written(m) /\ ReferenceOf(m) = ProbeOf(m)) =>
            /\ \A n \in 1..Len(folder[OutputOf(m)]) :
                   IsData(folder[OutputOf(m)][n]) => folder[OutputOf(m)][n][3] = DecZero
            /\ \A n \in 1..Len(numbers) :
                   numbers[n][1] = OutputOf(m) => numbers[n][2] = DecZero

C10_CopyCompared ==
    /\ pcR = "numbered"
    /\ \E m \in 1..Len(printed) :
           /\ Written(m)
           /\ ReferenceOf(m) = ProbeOf(m)
           /\ \E n \in 1..Len(ReferenceOf(m)) :
                  IsData(ReferenceOf(m)[n]) /\ ReferenceOf(m)[n][3] # DecZero
           /\ \E n \in 1..Len(numbers) : numbers[n][1] = OutputOf(m)

\* sum of the absolute values of the third column over the data rows
RECURSIVE AbsoluteSum(_)
AbsoluteSum(lines) ==
    IF lines = <<>> THEN DecZero
    ELSE IF IsData(Head(lines))
    THEN DecAdd(DecAbs(Head(lines)[3]), AbsoluteSum(Tail(lines)))
    ELSE AbsoluteSum(Tail(lines))

\* C11: every difference map in the folder gets a difference number; it is
\* the sum of the absolute values of the third column over the data rows of
\* the file, the blank lines add nothing, it is not negative, and files of
\* the same content get the same number.
C11_SumOfAbsoluteValues ==
    pcR = "numbered" =>
        /\ {numbers[n][1] : n \in 1..Len(numbers)} = NumberNames(folder)
        /\ \A n \in 1..Len(numbers) :
               /\ numbers[n][2] = AbsoluteSum(folder[numbers[n][1]])
               /\ numbers[n][2] = AbsoluteSum(DataRows(folder[numbers[n][1]]))
               /\ numbers[n][2][1] >= 0
               /\ \A m \in 1..Len(numbers) :
                      folder[numbers[m][1]] = folder[numbers[n][1]]
                          => numbers[m][2] = numbers[n][2]

C11_NumberOfMixedSigns ==
    /\ pcR = "numbered"
    /\ \E n \in 1..Len(numbers) :
           LET lines == folder[numbers[n][1]]
           IN  /\ \E k \in 1..Len(lines) : ~IsData(lines[k])
               /\ \E k \in 1..Len(lines) : IsData(lines[k]) /\ lines[k][3][1] < 0
               /\ \E k \in 1..Len(lines) :
                      IsData(lines[k]) /\ lines[k][3][1] >= 0 /\ lines[k][3] # DecZero
               /\ numbers[n][2] # DecZero

(***************************************************************************)
(* Claims about the order of the vertices                                  *)
(***************************************************************************)
\* the orders that list another vertex of the triangle first
Rotations == {<<2, 3, 1>>, <<3, 1, 2>>}

\* C28: under fingerprint_rr.py a triangle is passed over or recorded
\* whichever of its three vertices the line lists first, and the areas
\* recorded for the rotations of a line differ by no more than the last
\* digit kept.
C28_RotationsAgree ==
    (script = "fingerprint_rr" /\ ListsRead) =>
        \A n \in 1..Len(indices_list) : \A order \in Rotations :
            LET listed == TriangleOfRR(indices_list[n], vertices_coordinates,
                                       di_list, de_list)
                rotated == TriangleOfRR(Reordered(indices_list[n], order),
                                        vertices_coordinates, di_list, de_list)
            IN  /\ listed[1] = rotated[1]
                /\ listed[1] = "triangle" =>
                       Abs(listed[2][3] - rotated[2][3]) <= 1

(***************************************************************************)
(* Claims about the range of the difference number                         *)
(***************************************************************************)
\* a fingerprint as the worker normalizes it: no negative bin, the bins sum
\* to 100
NormalizedMap(lines) ==
    /\ \A n \in 1..Len(lines) : IsData(lines[n]) => lines[n][3][1] >= 0
    /\ AbsoluteSum(lines) = <<100, 0>>

\* the number printed for the difference map of the m-th pair
NumberOf(m) == numbers[CHOOSE n \in 1..Len(numbers) : numbers[n][1] = OutputOf(m)][2]

\* a value with eight decimals between 0 and 200
UpToTwoHundred(value) ==
    /\ value[1] >= 0
    /\ value[1] < 200 \/ value = <<200, 0>>

\* C30: the difference number of the difference map of two fingerprints of
\* the same grid, each without a negative bin and with bins that sum to 100,
\* lies between 0 and 200, both included.
C30_NumberWithinBounds ==
    pcR = "numbered" =>
        \A m \in 1..Len(printed) :
            (/\ SameGrid(ReferenceOf(m), ProbeOf(m))
             /\ NormalizedMap(ReferenceOf(m))
             /\ NormalizedMap(ProbeOf(m))) =>
                /\ Written(m)
                /\ UpToTwoHundred(NumberOf(m))

\* a pair with a number between the bounds and a pair of fingerprints
\* without a common bin, whose number is 200
C30_BetweenAndAtTheBound ==
    /\ pcR = "numbered"
    /\ \E m, l \in 1..Len(printed) :
           /\ SameGrid(ReferenceOf(m), ProbeOf(m))
           /\ NormalizedMap(ReferenceOf(m)) /\ NormalizedMap(ProbeOf(m))
           /\ NumberOf(m)[1] > 0 /\ NumberOf(m)[1] < 200
           /\ SameGrid(ReferenceOf(l), ProbeOf(l))
           /\ NormalizedMap(ReferenceOf(l)) /\ NormalizedMap(ProbeOf(l))
           /\ NumberOf(l) = <<200, 0>>

(***************************************************************************)
(* Claims about the end of the tournament                                  *)
(***************************************************************************)
\* a file laid out as dat_file_generation writes its register, of two rows
\* or more
WorkerWritten(lines) == EntryCount(lines) >= 2 /\ lines = DatLines(DataRows(lines))

\* the while loop has ended
LoopEnded == pcR \notin {"listdir", "compare"}

\* C25: when the loop of the tournament has ended over fingerprints as the
\* worker writes them, of the same grid or not, fewer than two names are
\* left in the register and every pair of fingerprints has been taken up
\* and either diffed or skipped.
C25_EveryPairHandled ==
    (LoopEnded /\ \A x \in TournamentNames(folder) : WorkerWritten(folder[x])) =>
        /\ Len(diff_register) < 2
        /\ \A x, y \in TournamentNames(folder) :
               StrLess(x, y) =>
                   \E m \in 1..Len(printed) : printed[m] = <<x, y>> /\ Completed(m)

(***************************************************************************)
(* Claims about a second run of the comparison                             *)
(***************************************************************************)
\* C29: no name of the register starts with "diff", and a second run of the
\* stage over the folder the first run left prints the same pairs in the
\* same order, writes the same difference maps and leaves every file of
\* the folder with the content it had.
C29_SecondRunRepeatsFirst ==
    /\ \A n \in 1..Len(diff_register) : ~StartsWith(diff_register[n], DiffText)
    /\ (earlier # <<>> /\ pcR \in {"done", "numbered"}) =>
           /\ printed = earlier[1]
           /\ written = earlier[2]
           /\ folder = earlier[3]

\* a second run that has written three difference maps anew
C29_SecondRunDone ==
    /\ earlier # <<>>
    /\ pcR = "done"
    /\ Len(written) = 3
    /\ \E name \in DOMAIN folder : StartsWith(name, DiffText)

(***************************************************************************)
(* Claims about the names of the difference maps                           *)
(***************************************************************************)
\* C22: within one run two different pairs of the tournament never have the
\* same name for their difference map, so that no difference map is
\* written over another.
C22_OutputsDistinct ==
    \A m, l \in 1..Len(printed) :
        printed[m] # printed[l] => OutputOf(m) # OutputOf(l)

(***************************************************************************)
(* Claims about the batch                                                  *)
(***************************************************************************)
\* C21: a file of the batch that fails does not end the batch: while
\* names are left in the register after a failure the script goes on with
\* the next of them.
C21_FailureDoesNotAbort ==
    (pc = "failed" /\ cxs_register # <<>>) => ENABLED NextBatch

\* the key of one row is before the key of another, as numbers
NumericBefore(s, t) == s[1] < t[1] \/ (s[1] = t[1] /\ s[2] < t[2])

\* C23: the rows of a written fingerprint are in ascending order of their
\* numeric (d_i, d_e), d_i first, whatever the values of the mesh.
C23_RowsAscending ==
    pc = "done" =>
        \A m, n \in 1..Len(dat_register) :
            m < n => NumericBefore(dat_register[m], dat_register[n])

\* what the script at work makes of a file processed alone: <<"failed">> or
\* <<"done", register of the .dat file>>
AloneOf(lines) ==
    LET v == Collect(lines, "vertices", FALSE)
        i == Collect(lines, "indices", FALSE)
        di == Collect(lines, "d_i", FALSE)
        de == Collect(lines, "d_e", FALSE)
    IN  IF v = <<>> \/ i = <<>> \/ di = <<>> \/ de = <<>> THEN <<"failed">>
        ELSE LET loop == IF script = "fingerprint_kahan"
                         THEN TriangleLoop(Tail(i), Tail(v), Tail(di), Tail(de))
                         ELSE IF script = "fingerprint_rr"
                         THEN TriangleLoopRR(Tail(i), Tail(v), Tail(di), Tail(de))
                         ELSE TriangleLoopHeron(Tail(i), Tail(v), Tail(di), Tail(de))
                 scan == AreaScan(Append(PreBinned(SortSeq(loop[2], TriangleBefore)),
                                         StopWord), <<>>, 0, 0, <<>>)
             IN  IF loop[1] THEN <<"failed">>
                 ELSE IF Tail(scan[1]) # <<>> /\ scan[2] = 0 THEN <<"failed">>
                 ELSE <<"done", DatRegister(Normalized(Tail(scan[1]), scan[2]))>>

\* C24: whatever files the batch has processed before, the file in process
\* ends as it ends when processed alone, and every .dat file of the
\* directory is the fingerprint its .cxs file has when processed alone.
C24_NoCrossFileState ==
    /\ (pc = "failed" /\ cxs_file # <<>>) => AloneOf(directory[cxs_file]) = <<"failed">>
    /\ pc = "done" => AloneOf(directory[cxs_file]) = <<"done", dat_register>>
    /\ \A name \in DOMAIN directory :
           EndsWith(name, DotCxs) /\ DatName(name) \in DOMAIN directory =>
               AloneOf(directory[name]) = <<"done", directory[DatName(name)]>>

\* the second file of a batch written, after a first file of other content
\* and another fingerprint
C24_SecondFileWritten ==
    /\ pc = "done"
    /\ Len(cxs_file) = 5 /\ cxs_file[1] = 98
    /\ \E name \in DOMAIN directory :
           /\ EndsWith(name, DotCxs) /\ name # cxs_file
           /\ DatName(name) \in DOMAIN directory
           /\ directory[name] # directory[cxs_file]
           /\ directory[DatName(name)] # <<>>
           /\ directory[DatName(name)] # directory[DatName(cxs_file)]

(***************************************************************************)
(* Claims about the stages of the moderator                                *)
(***************************************************************************)
\* C26: the call of assemble_cxs that is answered with 0 leaves
\* cxs_workshop as it was: the folder that was there with the files it had,
\* and no folder where there was none.
C26_AnswerZeroChangesNothing ==
    [][(Called("assemble_cxs") /\ assemble_choice' = 0) => workshop' = workshop]_vars

\* C27: every stage returns with the working directory at the project
\* root, and where cxs_workshop exists no stage of the invocation fails to
\* enter it.
C27_StagesReturnToRoot ==
    /\ cwd = "root"
    /\ workshop # <<>> => pcM # "failed"

====
